---- MODULE Spec2Model ----
(***************************************************************************)
(* A model of the camera-path engine of earth-previz: the keyframe         *)
(* interpolator (renderer.py, esp_exporter.py), the platform recommender   *)
(* (recommender.py), the shot library (camera_path.py), the interchange    *)
(* importer and exporters (esp_parser.py, esp_exporter.py,                 *)
(* kml_exporter.py), and of the web application that runs it (app.py).     *)
(*                                                                         *)
(* The engine is a set of functions.  Each specification of the engine     *)
(* draws one call (function name and arguments) in its initial state and   *)
(* has one action per function, which applies the function as the source   *)
(* computes it and stores what it returns (or the error it raises).  The   *)
(* specification of the effects keeps the plans on a heap and lets calls   *)
(* follow one another; the specification of the web application            *)
(* interleaves the request handlers with the steps of the worker threads.  *)
(*                                                                         *)
(* Numbers.  The source computes in IEEE doubles; the model computes in    *)
(* exact integer and rational arithmetic.  A rational is a pair <<n, d>>   *)
(* with d > 0.  Rounding error of the doubles is outside the model.        *)
(***************************************************************************)
EXTENDS Integers, Sequences, FiniteSets, TLC

VARIABLES
    pc,       \* "call": the call is about to run; "done": it has returned or raised
    call,     \* the function called and its arguments
    ret,      \* what the call returned; NoValue before it returns
    esp_file, \* the document an exporter wrote to output_path; NoValue before
    heap,     \* the objects calls share by reference: ShotPlans and their keyframe lists
    tasks,            \* app.tasks: task id -> task dict
    workers,          \* the worker thread of each task: its position and locals
    now,              \* the wall clock, in whole seconds
    stored_api_key,   \* app.stored_api_key: TRUE when it holds a key
    files             \* the output directory: the files under the run directories

web == <<tasks, workers, now, stored_api_key, files>>

vars == <<pc, call, ret, esp_file, heap, web>>

NoValue == [kind |-> "none"]

\* The web application is not running.
WebOff ==
    /\ tasks = <<>>
    /\ workers = <<>>
    /\ now = 0
    /\ stored_api_key = FALSE
    /\ files = {}

(***************************************************************************)
(* Arithmetic helpers                                                      *)
(***************************************************************************)
Max(a, b) == IF a >= b THEN a ELSE b

Min(a, b) == IF a <= b THEN a ELSE b

Abs(a) == IF a < 0 THEN -a ELSE a

\* The integer v as a rational.
Q(v) == <<v, 1>>

\* The rational q equals the integer v.
QEqInt(q, v) == q[1] = v * q[2]

\* Two rationals are equal.
QEq(q, r) == q[1] * r[2] = r[1] * q[2]

\* The rational q is below the rational r.
QLt(q, r) == q[1] * r[2] < r[1] * q[2]

\* The integer c times the rational q, with the denominator cancelled when
\* it divides c (the same number, written with smaller integers).
QMulInt(c, q) ==
    IF c % q[2] = 0 THEN <<(c \div q[2]) * q[1], 1>> ELSE <<c * q[1], q[2]>>

\* The rational q plus the integer v.
QAddInt(q, v) == <<q[1] + v * q[2], q[2]>>

(***************************************************************************)
(* Keyframes (models.py)                                                   *)
(***************************************************************************)
\* models.CameraKeyframe: a frozen record of six numbers.
CameraKeyframe(t, lat, lng, alt_m, heading_deg, tilt_deg) ==
    [t |-> t, lat |-> lat, lng |-> lng, alt_m |-> alt_m,
     heading_deg |-> heading_deg, tilt_deg |-> tilt_deg]

(***************************************************************************)
(* Bounds of the interpolator's inputs                                     *)
(***************************************************************************)
\* Longest keyframe sequence drawn.
MaxKeyframes == 3

\* Keyframe times are drawn from 0..MaxT, in ticks.  One tick is the
\* smallest time span the interpolator does not floor (SpanFloor).
MaxT == 3

\* Denominator of the blend fractions p = k / PDen drawn for the angle blend.
PDen == 4

\* Camera poses the keyframes are drawn from: lat, lng, alt_m, heading_deg,
\* tilt_deg.  Headings cover both ends of the data model's range 0..360 and
\* both sides of north; tilts cover both ends of [5, 89].
Poses ==
    { [lat |-> 10, lng |-> 20, alt_m |-> 100, heading_deg |-> 350, tilt_deg |-> 5],
      [lat |-> 12, lng |-> 26, alt_m |-> 400, heading_deg |-> 360, tilt_deg |-> 89],
      [lat |-> 11, lng |-> 23, alt_m |-> 250, heading_deg |-> 10, tilt_deg |-> 45] }

\* Sequences of times of length n, non-decreasing.
TimeSeqs(n) ==
    { ts \in [1..n -> 0..MaxT] : \A i \in 1..(n - 1) : ts[i] <= ts[i + 1] }

\* Keyframe sequences the interpolator is called with: non-empty and ordered
\* by time.  Equal times occur in the program: every builder of
\* camera_path.py stamps t = duration_sec * p, so duration_sec = 0 gives
\* thirteen keyframes at t = 0.
KeyframeSeqs ==
    UNION { { [i \in 1..n |->
                 CameraKeyframe(ts[i], ps[i].lat, ps[i].lng, ps[i].alt_m,
                                ps[i].heading_deg, ps[i].tilt_deg)] :
              ts \in TimeSeqs(n), ps \in [1..n -> Poses] } :
            n \in 1..MaxKeyframes }

\* Query times: from before the first possible keyframe to after the last.
QueryTimes == (-1)..(MaxT + 1)

\* Headings in [0, 360) the angle blend is drawn from.
Headings == { h \in 0..359 : h % 10 = 0 } \cup {1, 179, 181, 359}

(***************************************************************************)
(* The interpolator (renderer.py)                                          *)
(***************************************************************************)
\* The blend with its end points swapped: b + (a - b) * t.
LerpMutSwapped(a, b, p) == <<b * p[2] + (a - b) * p[1], p[2]>>

\* renderer._lerp with t = p[1] / p[2]: a + (b - a) * t.
Lerp(a, b, p) == <<a * p[2] + (b - a) * p[1], p[2]>>

\* The turn taken without wrapping: the plain difference.
AngleDeltaMutNoWrap(a, b) == b - a

\* The first line of _lerp_angle_deg: the shortest signed turn from heading
\* a to heading b, in [-180, 180).
AngleDelta(a, b) == ((b - a + 180) % 360) - 180

\* renderer._lerp_angle_deg with t = p[1] / p[2].
LerpAngleDeg(a, b, p) ==
    <<(a * p[2] + AngleDelta(a, b) * p[1] + 360 * p[2]) % (360 * p[2]), p[2]>>

\* esp_exporter._lerp_angle with t = p[1] / p[2]: the same two lines again.
LerpAngle(a, b, p) ==
    LET delta == ((b - a + 180) % 360) - 180
    IN  <<(a * p[2] + delta * p[1] + 360 * p[2]) % (360 * p[2]), p[2]>>

\* bisect.bisect_right(times, t): binary search for the insertion point
\* after any entries equal to t.
RECURSIVE BisectLoop(_, _, _, _)
BisectLoop(times, t, lo, hi) ==
    IF lo < hi
    THEN LET mid == (lo + hi) \div 2
         IN  IF t < times[mid + 1]
             THEN BisectLoop(times, t, lo, mid)
             ELSE BisectLoop(times, t, mid + 1, hi)
    ELSE lo

BisectRight(times, t) == BisectLoop(times, t, 0, Len(times))

\* The smallest span the interpolator divides by (1e-8 s): one tick.
SpanFloor == 1

\* The state dictionary built from one keyframe, returned by both clamps.
KfState(k) ==
    [lat |-> Q(k.lat), lng |-> Q(k.lng), alt_m |-> Q(k.alt_m),
     heading_deg |-> Q(k.heading_deg), tilt_deg |-> Q(k.tilt_deg)]

\* The guard with a strict comparison.
ClampLowMutStrict(keyframes, t) == t < keyframes[1].t

\* The first guard of _interpolate_state: t at or before the first keyframe.
ClampLow(keyframes, t) == t <= keyframes[1].t

\* renderer._interpolate_state(keyframes, t).
InterpolateStateFn(keyframes, t) ==
    IF ClampLow(keyframes, t)
    THEN KfState(keyframes[1])
    ELSE LET times == [i \in 1..Len(keyframes) |-> keyframes[i].t]
             idx == BisectRight(times, t)
         IN  IF idx >= Len(keyframes)
             THEN KfState(keyframes[Len(keyframes)])
             ELSE LET a == keyframes[idx]          \* keyframes[idx - 1], 0-based
                      b == keyframes[idx + 1]      \* keyframes[idx], 0-based
                      span == Max(b.t - a.t, SpanFloor)
                      p == <<t - a.t, span>>
                  IN  [lat |-> Lerp(a.lat, b.lat, p),
                       lng |-> Lerp(a.lng, b.lng, p),
                       alt_m |-> Lerp(a.alt_m, b.alt_m, p),
                       heading_deg |-> LerpAngleDeg(a.heading_deg, b.heading_deg, p),
                       tilt_deg |-> Lerp(a.tilt_deg, b.tilt_deg, p)]

(***************************************************************************)
(* Specification of the interpolator                                       *)
(***************************************************************************)
InterpCalls ==
    { [fn |-> "_interpolate_state", keyframes |-> ks, t |-> t] :
        ks \in KeyframeSeqs, t \in QueryTimes }
    \cup
    { [fn |-> f, a |-> a, b |-> b, p |-> <<k, PDen>>] :
        f \in {"_lerp_angle_deg", "_lerp_angle"},
        a \in Headings, b \in Headings, k \in 0..PDen }

InitInterp == pc = "call" /\ call \in InterpCalls /\ ret = NoValue /\ esp_file = NoValue
    /\ heap = NoValue /\ WebOff

InterpolateState ==
    /\ pc = "call"
    /\ call.fn = "_interpolate_state"
    /\ ret' = InterpolateStateFn(call.keyframes, call.t)
    /\ pc' = "done"
    /\ UNCHANGED <<call, esp_file, heap, web>>

CallLerpAngleDeg ==
    /\ pc = "call"
    /\ call.fn = "_lerp_angle_deg"
    /\ ret' = LerpAngleDeg(call.a, call.b, call.p)
    /\ pc' = "done"
    /\ UNCHANGED <<call, esp_file, heap, web>>

CallLerpAngle ==
    /\ pc = "call"
    /\ call.fn = "_lerp_angle"
    /\ ret' = LerpAngle(call.a, call.b, call.p)
    /\ pc' = "done"
    /\ UNCHANGED <<call, esp_file, heap, web>>

NextInterp == InterpolateState \/ CallLerpAngleDeg \/ CallLerpAngle

SpecInterp == InitInterp /\ [][NextInterp]_vars

(***************************************************************************)
(* Claims about the interpolator                                           *)
(***************************************************************************)
InterpDone == pc = "done" /\ call.fn = "_interpolate_state"

\* The returned state has exactly the five values of keyframe k.
StateIs(state, k) ==
    /\ QEqInt(state.lat, k.lat)
    /\ QEqInt(state.lng, k.lng)
    /\ QEqInt(state.alt_m, k.alt_m)
    /\ QEqInt(state.heading_deg, k.heading_deg)
    /\ QEqInt(state.tilt_deg, k.tilt_deg)

FirstKf == call.keyframes[1]

LastKf == call.keyframes[Len(call.keyframes)]

StrictlyIncreasing(keyframes) ==
    \A i \in 1..(Len(keyframes) - 1) : keyframes[i].t < keyframes[i + 1].t

\* C1 as stated: for every non-empty keyframe sequence and every t, the
\* interpolator returns the first keyframe's five values when t <= first.t
\* and the last keyframe's five values when t >= last.t.
C1_ClampBothAsStated ==
    InterpDone =>
        /\ (call.t <= FirstKf.t => StateIs(ret, FirstKf))
        /\ (call.t >= LastKf.t => StateIs(ret, LastKf))

\* C1 amended: for every non-empty keyframe sequence ordered by
\* non-decreasing t, the interpolator returns the first keyframe's five
\* values when t <= first.t, and the last keyframe's five values when
\* t >= last.t and t > first.t (when all keyframe times coincide with t the
\* low clamp is taken and the first keyframe is returned).
C1_ClampLowFirst ==
    InterpDone =>
        /\ (call.t <= FirstKf.t => StateIs(ret, FirstKf))
        /\ (call.t >= LastKf.t /\ call.t > FirstKf.t => StateIs(ret, LastKf))

\* C1 witness: a query at or after the last of several keyframes returned
\* the last keyframe, which differs from the first.
C1_Witness ==
    /\ InterpDone
    /\ Len(call.keyframes) >= 2
    /\ call.t >= LastKf.t
    /\ call.t > FirstKf.t
    /\ StateIs(ret, LastKf)
    /\ ~StateIs(ret, FirstKf)

\* C2 as stated: for every sequence with strictly increasing t, headings in
\* 0..360 inclusive and tilts in [5, 89], a query at keyframes[i].t returns
\* exactly keyframes[i]'s five values, for every i.
C2_KnotExactAsStated ==
    (InterpDone /\ StrictlyIncreasing(call.keyframes)) =>
        \A i \in 1..Len(call.keyframes) :
            call.t = call.keyframes[i].t => StateIs(ret, call.keyframes[i])

\* C2 amended: a query at keyframes[i].t returns exactly keyframes[i]'s lat,
\* lng, alt_m and tilt_deg for every i; heading_deg is returned unchanged at
\* the first and the last knot, and at an interior knot it is returned as
\* heading_deg mod 360, so a heading of 360 comes back as 0 there.
C2_KnotExactModuloHeading ==
    (InterpDone /\ StrictlyIncreasing(call.keyframes)) =>
        \A i \in 1..Len(call.keyframes) :
            call.t = call.keyframes[i].t =>
                LET k == call.keyframes[i]
                    h == IF i \in {1, Len(call.keyframes)}
                         THEN k.heading_deg
                         ELSE k.heading_deg % 360
                IN  /\ QEqInt(ret.lat, k.lat)
                    /\ QEqInt(ret.lng, k.lng)
                    /\ QEqInt(ret.alt_m, k.alt_m)
                    /\ QEqInt(ret.tilt_deg, k.tilt_deg)
                    /\ QEqInt(ret.heading_deg, h)

\* C2 witness: a query at an interior knot whose heading is 360 returned the
\* knot's position and tilt, with heading 0.
C2_Witness ==
    /\ InterpDone
    /\ StrictlyIncreasing(call.keyframes)
    /\ Len(call.keyframes) = 3
    /\ call.t = call.keyframes[2].t
    /\ call.keyframes[2].heading_deg = 360
    /\ QEqInt(ret.lat, call.keyframes[2].lat)
    /\ QEqInt(ret.heading_deg, 0)

AngleDone == pc = "done" /\ call.fn \in {"_lerp_angle_deg", "_lerp_angle"}

\* C3: for headings a, b in [0, 360) and a fraction p in [0, 1], both angle
\* blends return (a + delta * p) mod 360 for a delta congruent to b - a
\* modulo 360 with |delta| <= 180; the result is in [0, 360); and a = 350,
\* b = 10, p = 1/2 gives 0.
C3_ShortestArc ==
    AngleDone =>
        LET a == call.a
            b == call.b
            p == call.p
            n == ret[1]
            d == ret[2]
        IN  /\ d > 0
            /\ 0 <= n
            /\ n < 360 * d
            /\ \E delta \in (-180)..180 :
                  /\ (delta - (b - a)) % 360 = 0
                  /\ (n * p[2] - (a * p[2] + delta * p[1]) * d) % (360 * d * p[2]) = 0
            /\ (a = 350 /\ b = 10 /\ 2 * p[1] = p[2]) => n = 0

\* C3 witness: the exporter's blend of 350 and 10 at p = 1/2 returned 0.
C3_Witness ==
    /\ pc = "done"
    /\ call.fn = "_lerp_angle"
    /\ call.a = 350
    /\ call.b = 10
    /\ 2 * call.p[1] = call.p[2]
    /\ ret[1] = 0

(***************************************************************************)
(* The platform recommender (recommender.py)                               *)
(***************************************************************************)
\* Thresholds of recommend_platform: metres, metres per second, metres.
AltDroneMax == 120

AltSharedMax == 220

SpeedDroneMax == 10

SpeedSharedMax == 18

RadiusDroneMax == 500

RadiusSharedMax == 1000

\* Values of the three statistics recommend_platform reads, on both sides
\* of and on every threshold.
MaxAltitudes == {0, 50, 119, 120, 121, 219, 220, 221, 500}

MaxSpeeds == {0, 5, 9, 10, 11, 17, 18, 19, 25}

AvgRadii == {0, 300, 499, 500, 501, 999, 1000, 1001, 2000}

\* Python's round() of the rational n / d (n >= 0, d > 0) to an integer:
\* to the nearest, a tie to the even neighbour.
RoundHalfEven(n, d) ==
    LET q == n \div d
        r == n % d
    IN  IF 2 * r < d THEN q
        ELSE IF 2 * r > d THEN q + 1
        ELSE IF q % 2 = 0 THEN q ELSE q + 1

\* The altitude factor with the first comparison strict.
ScoreAltitudeMutStrict(max_alt) ==
    IF max_alt < AltDroneMax
    THEN [drone |-> 3, heli |-> 0, reason |-> "altitude_low"]
    ELSE IF max_alt <= AltSharedMax
    THEN [drone |-> 1, heli |-> 1, reason |-> "altitude_mid"]
    ELSE [drone |-> 0, heli |-> 3, reason |-> "altitude_high"]

\* The altitude factor: what it adds to each score, and the reason appended.
ScoreAltitude(max_alt) ==
    IF max_alt <= AltDroneMax
    THEN [drone |-> 3, heli |-> 0, reason |-> "altitude_low"]
    ELSE IF max_alt <= AltSharedMax
    THEN [drone |-> 1, heli |-> 1, reason |-> "altitude_mid"]
    ELSE [drone |-> 0, heli |-> 3, reason |-> "altitude_high"]

\* The speed factor.
ScoreSpeed(max_speed) ==
    IF max_speed <= SpeedDroneMax
    THEN [drone |-> 3, heli |-> 0, reason |-> "speed_low"]
    ELSE IF max_speed <= SpeedSharedMax
    THEN [drone |-> 1, heli |-> 1, reason |-> "speed_mid"]
    ELSE [drone |-> 0, heli |-> 3, reason |-> "speed_high"]

\* The radius factor with the middle band scoring for the drone alone.
ScoreRadiusMutDroneOnly(avg_radius) ==
    IF avg_radius <= RadiusDroneMax
    THEN [drone |-> 2, heli |-> 0, reason |-> "radius_low"]
    ELSE IF avg_radius <= RadiusSharedMax
    THEN [drone |-> 1, heli |-> 0, reason |-> "radius_mid"]
    ELSE [drone |-> 0, heli |-> 2, reason |-> "radius_high"]

\* The radius factor.
ScoreRadius(avg_radius) ==
    IF avg_radius <= RadiusDroneMax
    THEN [drone |-> 2, heli |-> 0, reason |-> "radius_low"]
    ELSE IF avg_radius <= RadiusSharedMax
    THEN [drone |-> 1, heli |-> 1, reason |-> "radius_mid"]
    ELSE [drone |-> 0, heli |-> 2, reason |-> "radius_high"]

\* The choice with the helicopter winning ties.
ChoosePlatformMutTie(drone_score, heli_score) ==
    IF heli_score >= drone_score THEN "helicopter"
    ELSE IF drone_score > heli_score THEN "drone"
    ELSE "hybrid"

\* The platform chosen from the two scores.
ChoosePlatform(drone_score, heli_score) ==
    IF heli_score > drone_score THEN "helicopter"
    ELSE IF drone_score > heli_score THEN "drone"
    ELSE "hybrid"

\* recommender.recommend_platform(motion).  confidence is the rounded
\* value in thousandths: round(confidence, 3) * 1000.
RecommendPlatform(motion) ==
    LET alt == ScoreAltitude(motion.max_altitude_m)
        spd == ScoreSpeed(motion.max_speed_mps)
        rad == ScoreRadius(motion.avg_radius_m)
        drone_score == 0 + alt.drone + spd.drone + rad.drone
        heli_score == 0 + alt.heli + spd.heli + rad.heli
        total == Max(drone_score + heli_score, 1)
    IN  [recommended_platform |-> ChoosePlatform(drone_score, heli_score),
         confidence |-> RoundHalfEven(1000 * Abs(drone_score - heli_score), total),
         drone_score |-> drone_score,
         helicopter_score |-> heli_score,
         reasons |-> <<alt.reason, spd.reason, rad.reason>>]

RecommendCalls ==
    { [fn |-> "recommend_platform",
       motion |-> [max_altitude_m |-> a, max_speed_mps |-> s, avg_radius_m |-> r]] :
        a \in MaxAltitudes, s \in MaxSpeeds, r \in AvgRadii }

InitRecommend == pc = "call" /\ call \in RecommendCalls /\ ret = NoValue /\ esp_file = NoValue
    /\ heap = NoValue /\ WebOff

CallRecommendPlatform ==
    /\ pc = "call"
    /\ call.fn = "recommend_platform"
    /\ ret' = RecommendPlatform(call.motion)
    /\ pc' = "done"
    /\ UNCHANGED <<call, esp_file, heap, web>>

NextRecommend == CallRecommendPlatform

SpecRecommend == InitRecommend /\ [][NextRecommend]_vars

(***************************************************************************)
(* Claims about the recommender                                            *)
(***************************************************************************)
RecommendDone == pc = "done" /\ call.fn = "recommend_platform"

\* The contribution table of the claim: what a factor with value v adds to
\* the drone score and to the helicopter score, for thresholds lo < hi and
\* weight w.
DroneShare(v, lo, hi, w) == IF v <= lo THEN w ELSE IF v <= hi THEN 1 ELSE 0

HeliShare(v, lo, hi, w) == IF v <= lo THEN 0 ELSE IF v <= hi THEN 1 ELSE w

\* C4: the three factors score independently with inclusive upper bounds
\* (altitude 120/220 weight 3, speed 10/18 weight 3, average radius 500/1000
\* weight 2), and the returned drone_score and helicopter_score are exactly
\* the sums of the three contributions.
C4_ScoresAreSums ==
    RecommendDone =>
        LET m == call.motion
        IN  /\ ret.drone_score =
                 DroneShare(m.max_altitude_m, 120, 220, 3)
                 + DroneShare(m.max_speed_mps, 10, 18, 3)
                 + DroneShare(m.avg_radius_m, 500, 1000, 2)
            /\ ret.helicopter_score =
                 HeliShare(m.max_altitude_m, 120, 220, 3)
                 + HeliShare(m.max_speed_mps, 10, 18, 3)
                 + HeliShare(m.avg_radius_m, 500, 1000, 2)

\* C4 witness: every statistic sits exactly on its lower threshold and the
\* drone takes all eight points.
C4_Witness ==
    /\ RecommendDone
    /\ call.motion.max_altitude_m = 120
    /\ call.motion.max_speed_mps = 10
    /\ call.motion.avg_radius_m = 500
    /\ ret.drone_score = 8
    /\ ret.helicopter_score = 0

\* All three factors score for the drone alone, or all for the helicopter.
AllDrone(m) ==
    m.max_altitude_m <= 120 /\ m.max_speed_mps <= 10 /\ m.avg_radius_m <= 500

AllHeli(m) ==
    m.max_altitude_m > 220 /\ m.max_speed_mps > 18 /\ m.avg_radius_m > 1000

\* C5: the platform is "drone" iff drone_score > helicopter_score,
\* "helicopter" iff helicopter_score > drone_score, "hybrid" iff they are
\* equal; confidence is |drone - helicopter| / max(drone + helicopter, 1)
\* rounded to three decimals; it is 0 exactly when the platform is "hybrid"
\* and 1.0 exactly when all three factors score for one platform alone
\* (8/0 gives "drone", 0/8 gives "helicopter").
C5_PlatformAndConfidence ==
    RecommendDone =>
        LET d == ret.drone_score
            h == ret.helicopter_score
            total == IF d + h >= 1 THEN d + h ELSE 1
            diff == IF d >= h THEN d - h ELSE h - d
        IN  /\ (ret.recommended_platform = "drone") <=> (d > h)
            /\ (ret.recommended_platform = "helicopter") <=> (h > d)
            /\ (ret.recommended_platform = "hybrid") <=> (d = h)
            \* the nearest thousandth: within half a thousandth of the quotient
            /\ 2 * (ret.confidence * total - 1000 * diff) <= total
            /\ 2 * (1000 * diff - ret.confidence * total) <= total
            /\ (ret.confidence = 0) <=> (ret.recommended_platform = "hybrid")
            /\ (ret.confidence = 1000) <=> (AllDrone(call.motion) \/ AllHeli(call.motion))
            /\ AllDrone(call.motion) =>
                 (d = 8 /\ h = 0 /\ ret.recommended_platform = "drone")
            /\ AllHeli(call.motion) =>
                 (d = 0 /\ h = 8 /\ ret.recommended_platform = "helicopter")

\* C5 witness: max_alt = 500, max_speed = 25, avg_radius = 2000 came back as
\* "helicopter" 0/8 with confidence 1.0.
C5_Witness ==
    /\ RecommendDone
    /\ call.motion.max_altitude_m = 500
    /\ call.motion.max_speed_mps = 25
    /\ call.motion.avg_radius_m = 2000
    /\ ret.recommended_platform = "helicopter"
    /\ ret.helicopter_score = 8
    /\ ret.drone_score = 0
    /\ ret.confidence = 1000

\* A tie was reported as "hybrid" with confidence 0.
C5_WitnessHybrid ==
    /\ RecommendDone
    /\ ret.recommended_platform = "hybrid"
    /\ ret.drone_score = ret.helicopter_score
    /\ ret.confidence = 0

(***************************************************************************)
(* The shot library (camera_path.py)                                       *)
(*                                                                         *)
(* A built keyframe carries its time and altitude as rationals and, in     *)
(* place of lat, lng, heading_deg and tilt_deg, the arguments of the       *)
(* trigonometric formulas that give them (_offset_lat_lng, _bearing_deg,   *)
(* _look_at_tilt_deg): the offset from the target in polar form.  Sines    *)
(* and arc tangents are outside integer arithmetic.                        *)
(***************************************************************************)
\* Largest duration_sec drawn, besides the default of 300.
MaxDuration == 3

\* The default of the builders' samples parameter; no catalog entry
\* overrides it.
DefaultSamples == 13

\* The default tilt offset of the orbit builder, in degrees.
OrbitTiltOffsetDeg == -5

\* The samples every catalog entry is built with.
Samples == DefaultSamples

\* _MIN_TILT_DEG and _MAX_TILT_DEG, and the default forward_tilt_deg of the
\* dolly builder, in hundredths of a degree.
MinTiltDeg == 500

MaxTiltDeg == 8900

ForwardTiltDeg == 7800

\* A tilt is an arc tangent, which integer arithmetic does not compute: a
\* keyframe carries for tilt_deg a closed range [lo, hi], in hundredths
\* of a degree, that contains the value the source computes.
TiltRange(lo, hi) == [lo |-> lo, hi |-> hi]

\* _look_at_tilt_deg: degrees(atan2(cam_alt, max(ground_dist, 1.0))), for
\* cam_alt a rational in metres.  The second argument is positive, so the
\* angle has the sign of cam_alt and is below 90 degrees.  When the camera
\* is over the target (gd = "zero": ground_dist is 0 and the maximum is 1)
\* the angle is atan(cam_alt): above 89.01 degrees from 58 m on
\* (tan 89.01 = 57.87) and below 89 degrees up to 57 m (tan 89 = 57.29).
\* For any other ground distance (gd = "any") only the sign is used.
LookAtTiltDeg(cam_alt, gd) ==
    IF cam_alt[1] < 0 THEN TiltRange(-9000, 0)
    ELSE IF cam_alt[1] = 0 THEN TiltRange(0, 0)
    ELSE IF gd # "zero" THEN TiltRange(0, 9000)
    ELSE IF cam_alt[1] >= 58 * cam_alt[2] THEN TiltRange(8901, 9000)
    ELSE IF cam_alt[1] <= 57 * cam_alt[2] THEN TiltRange(0, 8900)
    ELSE TiltRange(8899, 9000)

\* The clamp left out: the raw tilt.
ClampTiltMutNone(raw) == raw

\* max(_MIN_TILT_DEG, min(_MAX_TILT_DEG, raw)) on a range.
ClampTilt(raw) ==
    TiltRange(Max(MinTiltDeg, Min(MaxTiltDeg, raw.lo)),
              Max(MinTiltDeg, Min(MaxTiltDeg, raw.hi)))

\* A range moved by an offset in hundredths of a degree.
ShiftTilt(range, offset) == TiltRange(range.lo + offset, range.hi + offset)

\* The time stamp without the duration: t = p.
KeyframeTimeMutFraction(duration_sec, i, samples) == <<i, samples - 1>>

\* The time of sample i (0-based): duration_sec * p with p = i / (samples - 1).
KeyframeTime(duration_sec, i, samples) == <<duration_sec * i, samples - 1>>

\* The azimuth swept by one degree per unit of p, whatever sweep_deg is.
OrbitAzimuthMutUnitSweep(g, p) ==
    <<g.azimuth_start_deg * p[2] + 1 * p[1], p[2]>>

\* Line 73: azimuth_deg = azimuth_start_deg + sweep_deg * p.
OrbitAzimuth(g, p) ==
    <<g.azimuth_start_deg * p[2] + g.sweep_deg * p[1], p[2]>>

\* camera_path._orbit_keyframes.
OrbitKeyframes(target_lat, target_lng, duration_sec, g, samples) ==
    [k \in 1..samples |->
        LET i == k - 1
            p == <<i, samples - 1>>
        IN  [t |-> KeyframeTime(duration_sec, i, samples),
             look |-> "target",
             radius |-> Lerp(g.radius_start_m, g.radius_end_m, p),
             azimuth_deg |-> OrbitAzimuth(g, p),
             alt_m |-> Lerp(g.alt_start_m, g.alt_end_m, p),
             tilt_offset_deg |-> OrbitTiltOffsetDeg,
             tilt_deg |->
                ClampTilt(ShiftTilt(
                    LookAtTiltDeg(Lerp(g.alt_start_m, g.alt_end_m, p), "any"),
                    100 * OrbitTiltOffsetDeg))]]

\* camera_path._dolly_keyframes.
DollyKeyframes(target_lat, target_lng, duration_sec, g, samples) ==
    [k \in 1..samples |->
        LET i == k - 1
            p == <<i, samples - 1>>
        IN  [t |-> KeyframeTime(duration_sec, i, samples),
             look |-> IF g.look_forward THEN "forward" ELSE "target",
             approach_azimuth_deg |-> g.approach_azimuth_deg,
             dist |-> Lerp(g.distance_start_m, g.distance_end_m, p),
             lateral |-> Lerp(g.lateral_offset_start_m, g.lateral_offset_end_m, p),
             alt_m |-> Lerp(g.alt_start_m, g.alt_end_m, p),
             tilt_deg |->
                IF g.look_forward
                THEN ClampTilt(TiltRange(ForwardTiltDeg, ForwardTiltDeg))
                ELSE ClampTilt(LookAtTiltDeg(Lerp(g.alt_start_m, g.alt_end_m, p),
                                             "any"))]]

Orbit(rs, re, as, ae, az, sweep) ==
    [kind |-> "orbit", radius_start_m |-> rs, radius_end_m |-> re,
     alt_start_m |-> as, alt_end_m |-> ae, azimuth_start_deg |-> az,
     sweep_deg |-> sweep]

Dolly(az, ds, de, as, ae, ls, le, fwd) ==
    [kind |-> "dolly", approach_azimuth_deg |-> az, distance_start_m |-> ds,
     distance_end_m |-> de, alt_start_m |-> as, alt_end_m |-> ae,
     lateral_offset_start_m |-> ls, lateral_offset_end_m |-> le,
     look_forward |-> fwd]

\* The builders list of generate_shot_plans: id, style and geometry of the
\* ten presets, in the order of the source.
Builders ==
    << [shot_id |-> "aerial_slow_orbit_close", style |-> "helicopter",
        g |-> Orbit(850, 850, 475, 475, 0, 15)],
       [shot_id |-> "aerial_flyby_north", style |-> "helicopter",
        g |-> Dolly(0, 400, 400, 500, 500, -50, 50, TRUE)],
       [shot_id |-> "aerial_extreme_slow", style |-> "helicopter",
        g |-> Orbit(1000, 1000, 550, 550, 270, 5)],
       [shot_id |-> "aerial_flythrough_east", style |-> "helicopter",
        g |-> Dolly(90, 350, 350, 600, 600, -40, 40, FALSE)],
       [shot_id |-> "aerial_slow_orbit_wide", style |-> "helicopter",
        g |-> Orbit(1500, 1500, 750, 750, 45, 13)],
       [shot_id |-> "aerial_flyby_diagonal", style |-> "helicopter",
        g |-> Dolly(45, 450, 450, 700, 700, -47, 47, TRUE)],
       [shot_id |-> "aerial_slow_descent", style |-> "helicopter",
        g |-> Orbit(1500, 800, 1000, 450, 90, 17)],
       [shot_id |-> "aerial_grand_panorama", style |-> "helicopter",
        g |-> Orbit(2500, 2500, 1400, 1400, 270, 10)],
       [shot_id |-> "aerial_slow_ascent", style |-> "helicopter",
        g |-> Orbit(600, 1600, 400, 1100, 200, 17)],
       [shot_id |-> "aerial_ultra_high", style |-> "helicopter",
        g |-> Orbit(3000, 3000, 2000, 2000, 120, 8)] >>

\* The builder lambda of one catalog entry.
BuildKeyframes(b, target_lat, target_lng, duration_sec) ==
    IF b.g.kind = "orbit"
    THEN OrbitKeyframes(target_lat, target_lng, duration_sec, b.g, Samples)
    ELSE DollyKeyframes(target_lat, target_lng, duration_sec, b.g, Samples)

\* The slice one entry short.
ShotCountMutOffByOne(num_shots) == Min(num_shots, Len(Builders)) - 1

\* How many entries the loop of generate_shot_plans takes:
\* builders[: min(num_shots, len(builders))].
ShotCount(num_shots) == Min(num_shots, Len(Builders))

\* camera_path.generate_shot_plans(target_lat, target_lng, duration_sec,
\* num_shots): a ValueError when num_shots < 1, else the list of plans.
GenerateShotPlans(target_lat, target_lng, duration_sec, num_shots) ==
    IF num_shots < 1
    THEN [error |-> "ValueError", plans |-> <<>>]
    ELSE [error |-> "none",
          plans |->
            [n \in 1..ShotCount(num_shots) |->
                [shot_id |-> Builders[n].shot_id,
                 style |-> Builders[n].style,
                 duration_sec |-> duration_sec,
                 target_lat |-> target_lat,
                 target_lng |-> target_lng,
                 keyframes |-> BuildKeyframes(Builders[n], target_lat,
                                              target_lng, duration_sec)]]]

\* Targets, durations and shot counts generate_shot_plans is called with.
\* Nothing in camera_path.py restricts duration_sec or caps num_shots.
Targets == { <<40, -73>>, <<0, 0>>, <<-34, 151>> }

Durations == (-1)..MaxDuration \cup {300}

ShotCounts == (-1)..(Len(Builders) + 2)

ShotCalls ==
    { [fn |-> "generate_shot_plans", target_lat |-> tg[1], target_lng |-> tg[2],
       duration_sec |-> d, num_shots |-> n] :
        tg \in Targets, d \in Durations, n \in ShotCounts }

\* The range check without its upper limit.
ShotsInRangeMutNoUpper(shots) == ~(shots < 1)

\* bot.main, line 99: --shots passes unless args.shots < 1 or
\* args.shots > 10.
ShotsInRange(shots) == ~(shots < 1 \/ shots > 10)

\* bot.main without --esp, up to the assignment of shot_plans: a ValueError
\* for --shots out of range, else the list generate_shot_plans returns (or
\* the error it raises).  --duration-sec is passed on as it is given.
MainShotPlans(lat, lng, duration_sec, shots) ==
    IF ~ShotsInRange(shots)
    THEN [error |-> "ValueError", plans |-> <<>>]
    ELSE GenerateShotPlans(lat, lng, duration_sec, shots)

\* The command lines: --lat, --lng, --duration-sec and --shots.
MainCalls ==
    { [fn |-> "main", lat |-> tg[1], lng |-> tg[2], duration_sec |-> d,
       shots |-> n] :
        tg \in Targets, d \in Durations, n \in ShotCounts }

\* Most samples the orbit builder is called with on its own.
MaxSamples == 3

\* Calls of _orbit_keyframes on its own: with and without a sweep, with
\* the radius and the altitude constant or changing.
OrbitCalls ==
    { [fn |-> "_orbit_keyframes", target_lat |-> 40, target_lng |-> -73,
       duration_sec |-> d, samples |-> n,
       g |-> Orbit(rs, re, as, ae, 90, sweep)] :
        d \in 1..MaxDuration, n \in 2..MaxSamples,
        rs \in {850, 1500}, re \in {850, 1500},
        as \in {475, 1000}, ae \in {475, 1000}, sweep \in {0, 15} }

InitShots ==
    /\ pc = "call"
    /\ call \in ShotCalls \cup MainCalls \cup OrbitCalls
    /\ ret = NoValue
    /\ esp_file = NoValue
    /\ heap = NoValue
    /\ WebOff

CallGenerateShotPlans ==
    /\ pc = "call"
    /\ call.fn = "generate_shot_plans"
    /\ ret' = GenerateShotPlans(call.target_lat, call.target_lng,
                                call.duration_sec, call.num_shots)
    /\ pc' = "done"
    /\ UNCHANGED <<call, esp_file, heap, web>>

CallMain ==
    /\ pc = "call"
    /\ call.fn = "main"
    /\ ret' = MainShotPlans(call.lat, call.lng, call.duration_sec, call.shots)
    /\ pc' = "done"
    /\ UNCHANGED <<call, esp_file, heap, web>>

CallOrbitKeyframes ==
    /\ pc = "call"
    /\ call.fn = "_orbit_keyframes"
    /\ ret' = OrbitKeyframes(call.target_lat, call.target_lng, call.duration_sec,
                              call.g, call.samples)
    /\ pc' = "done"
    /\ UNCHANGED <<call, esp_file, heap, web>>

NextShots == CallGenerateShotPlans \/ CallMain \/ CallOrbitKeyframes

SpecShots == InitShots /\ [][NextShots]_vars

(***************************************************************************)
(* Claims about the shot library                                           *)
(***************************************************************************)
ShotsDone == pc = "done" /\ call.fn = "generate_shot_plans"

\* The catalog order the claim gives.
ClaimedCatalog ==
    << "aerial_slow_orbit_close", "aerial_flyby_north", "aerial_extreme_slow",
       "aerial_flythrough_east", "aerial_slow_orbit_wide", "aerial_flyby_diagonal",
       "aerial_slow_descent", "aerial_grand_panorama", "aerial_slow_ascent",
       "aerial_ultra_high" >>

\* C6: for 1 <= num_shots <= 10 generate_shot_plans returns exactly num_shots
\* plans whose shot_ids are the first num_shots entries of the catalog, in
\* order and pairwise distinct; for num_shots < 1 it raises an error and
\* builds no plan.
C6_FirstNOfCatalog ==
    ShotsDone =>
        /\ (call.num_shots >= 1 /\ call.num_shots <= 10) =>
              /\ ret.error = "none"
              /\ Len(ret.plans) = call.num_shots
              /\ \A n \in 1..call.num_shots : ret.plans[n].shot_id = ClaimedCatalog[n]
              /\ \A m, n \in 1..Len(ret.plans) :
                    m # n => ret.plans[m].shot_id # ret.plans[n].shot_id
        /\ call.num_shots < 1 => (ret.error = "ValueError" /\ ret.plans = <<>>)

\* C6 witness: a call for all ten shots returned ten plans, the last one
\* the tenth catalog entry.
C6_Witness ==
    /\ ShotsDone
    /\ call.num_shots = 10
    /\ Len(ret.plans) = 10
    /\ ret.plans[10].shot_id = "aerial_ultra_high"

\* A call for no shots raised.
C6_WitnessError ==
    /\ ShotsDone
    /\ call.num_shots = 0
    /\ ret.error = "ValueError"

\* C7: with duration_sec >= 1, every returned plan has exactly 13 keyframes
\* at times t_i = duration_sec * i / 12 for i = 0..12 (first 0, last
\* duration_sec, strictly increasing) and carries the given target_lat,
\* target_lng and duration_sec.
C7_ThirteenEvenKeyframes ==
    (ShotsDone /\ call.duration_sec >= 1) =>
        \A n \in 1..Len(ret.plans) :
            LET plan == ret.plans[n]
                kfs == plan.keyframes
            IN  /\ Len(kfs) = 13
                /\ \A i \in 0..12 : QEq(kfs[i + 1].t, <<call.duration_sec * i, 12>>)
                /\ QEqInt(kfs[1].t, 0)
                /\ QEqInt(kfs[Len(kfs)].t, call.duration_sec)
                /\ \A i \in 1..(Len(kfs) - 1) :
                      kfs[i].t[1] * kfs[i + 1].t[2] < kfs[i + 1].t[1] * kfs[i].t[2]
                /\ plan.target_lat = call.target_lat
                /\ plan.target_lng = call.target_lng
                /\ plan.duration_sec = call.duration_sec

\* C7 witness: generate_shot_plans(40, -73, 300, 3) returned three plans and
\* the seventh keyframe of the dolly plan is at t = 150.
C7_Witness ==
    /\ ShotsDone
    /\ call.target_lat = 40
    /\ call.target_lng = -73
    /\ call.duration_sec = 300
    /\ call.num_shots = 3
    /\ Len(ret.plans) = 3
    /\ Len(ret.plans[2].keyframes) = 13
    /\ QEqInt(ret.plans[2].keyframes[7].t, 150)
    /\ ret.plans[3].target_lat = 40

(***************************************************************************)
(* The interchange importer (esp_parser.py)                                *)
(*                                                                         *)
(* Units.  ECEF coordinates are integers in units of UnitM metres, so that *)
(* squared magnitudes and their 100-fold fit the model checker's integers; *)
(* the band 5,000,000..8,000,000 m is EcefBandLo..EcefBandHi units.        *)
(* Latitudes and longitudes are in 1e-4 degrees, the resolution of the     *)
(* track-point encoding (179.9998, 89.9999); altitudes are in metres.      *)
(* Values that the source divides (means, times, relative coordinates)     *)
(* are rationals.                                                          *)
(***************************************************************************)
\* Most camera frames in a drawn document.
MaxFrames == 3

\* Metres per ECEF unit.
UnitM == 25000

\* 5_000_000 m and 8_000_000 m in ECEF units.
EcefBandLo == 200

EcefBandHi == 320

\* EARTH_A, and EARTH_B = EARTH_A * (1 - EARTH_F) to the metre.
EarthA == 6378137

EarthB == 6356752

\* The absent value of an optional argument (None) and a present one.
None == <<>>

Some(v) == <<v>>

\* The square of esp_parser._ecef_magnitude(x, y, z); the source compares
\* the root with the band, the model the square with the band's squares.
EcefMagnitudeSq(x, y, z) == x * x + y * y + z * z

\* The band test with its bounds included.
InEcefBandMutInclusive(magSq) ==
    EcefBandLo * EcefBandLo <= magSq /\ magSq <= EcefBandHi * EcefBandHi

\* 5_000_000 < mag < 8_000_000.
InEcefBand(magSq) ==
    EcefBandLo * EcefBandLo < magSq /\ magSq < EcefBandHi * EcefBandHi

\* esp_parser._detect_ecef_scale(sample_pos): the scale, or found = FALSE
\* for None.
DetectEcefScale(pos) ==
    IF InEcefBand(EcefMagnitudeSq(pos.x, pos.y, pos.z))
    THEN [found |-> TRUE, scale |-> 1]
    ELSE IF InEcefBand(EcefMagnitudeSq(pos.x * 100, pos.y * 100, pos.z * 100))
    THEN [found |-> TRUE, scale |-> 100]
    ELSE [found |-> FALSE, scale |-> 0]

\* math.degrees(math.atan2(y, x)) in 1e-4 degrees, for a point on a
\* coordinate axis or at the origin.
Atan2DegE4(y, x) ==
    IF y = 0 THEN (IF x >= 0 THEN 0 ELSE 1800000)
    ELSE IF y > 0 THEN 900000 ELSE -900000

\* esp_parser._ecef_to_geodetic(x, y, z) for a point on a coordinate axis
\* (x, y, z in ECEF units): there the iteration is stationary.  In the
\* equatorial plane lat = 0, cos_lat = 1 and alt = p - EARTH_A; on the polar
\* axis p = 0, lat = +-90, cos_lat < 1e-10 and alt = |z| - EARTH_B.
EcefToGeodetic(x, y, z) ==
    LET p == IF y = 0 THEN Abs(x) ELSE Abs(y)      \* sqrt(x*x + y*y), one is 0
    IN  IF z = 0
        THEN [lat |-> 0, lng |-> Atan2DegE4(y, x), alt |-> p * UnitM - EarthA]
        ELSE [lat |-> Atan2DegE4(z, p), lng |-> Atan2DegE4(y, x),
              alt |-> Abs(z) * UnitM - EarthB]

\* One entry of trackPoints decoded (lines 72-79): rel is the triple of
\* relative values, each a rational.
DecodeTrackpoint(tp) ==
    [name |-> tp.name,
     lng |-> QAddInt(QMulInt(3600000, tp.rel[1]), -1800000),
     lat |-> QAddInt(QMulInt(1799998, tp.rel[2]), -899999),
     alt |-> QAddInt(QMulInt(65117481, tp.rel[3]), 1)]

\* esp_parser._extract_trackpoints(data): the decodable entries, decoded,
\* in order; an entry that raises while decoding is skipped.
RECURSIVE ExtractTrackpoints(_)
ExtractTrackpoints(raw) ==
    IF raw = <<>> THEN <<>>
    ELSE IF Head(raw).wellFormed
    THEN <<DecodeTrackpoint(Head(raw))>> \o ExtractTrackpoints(Tail(raw))
    ELSE ExtractTrackpoints(Tail(raw))

\* The odd part of a positive integer.
RECURSIVE OddPart(_)
OddPart(d) == IF d % 2 = 0 THEN OddPart(d \div 2) ELSE d

\* The quotient n / d is a double exactly: its reduced denominator is a
\* power of two (the numbers here are far below 2^53).
IsDyadic(n, d) == n % OddPart(d) = 0

\* The step with the divisor one too large: (total - 1) / max_keyframes.
SubsampleStepMutDivisor(total, max_keyframes) == <<total - 1, max_keyframes>>

\* step = (total - 1) / (max_keyframes - 1), line 99.
SubsampleStep(total, max_keyframes) == <<total - 1, max_keyframes - 1>>

\* round(step * i), line 100: the integers the call can return.  Away from
\* a half the double product rounds as the exact one.  At an exact half,
\* round() takes the even neighbour when step is a double exactly; when it
\* is not, the double product lies on the half or beside it, and either
\* neighbour is returned.
RoundStepTimes(step, i) ==
    LET n == step[1] * i
        d == step[2]
    IN  IF 2 * (n % d) = d /\ ~IsDyadic(step[1], step[2])
        THEN {n \div d, n \div d + 1}
        ELSE {RoundHalfEven(n, d)}

\* [round(step * i) for i in range(k)]: the lists the comprehension can
\* build.
RECURSIVE RoundedMultiples(_, _)
RoundedMultiples(step, k) ==
    IF k = 0 THEN {<<>>}
    ELSE { Append(s, r) : s \in RoundedMultiples(step, k - 1),
                          r \in RoundStepTimes(step, k - 1) }

\* esp_parser._subsample_indices(total, max_keyframes): the lists of
\* 0-based indices the call can return (one list, but for halves of a step
\* that is not a double).
SubsampleIndices(total, max_keyframes) ==
    IF total <= max_keyframes
    THEN {[i \in 1..total |-> i - 1]}
    ELSE RoundedMultiples(SubsampleStep(total, max_keyframes), max_keyframes)

RECURSIVE SeqSum(_)
SeqSum(seq) == IF seq = <<>> THEN 0 ELSE Head(seq) + SeqSum(Tail(seq))

\* statistics.mean of a non-empty list of numbers, as a rational.
Mean(seq) == <<SeqSum(seq), Len(seq)>>

\* The time with fps unguarded: t = idx / fps.
ImportTimeMutRawFps(idx, fps) == <<idx, fps>>

\* Line 158: t = idx / max(fps, 1).
ImportTime(idx, fps) == <<idx, Max(fps, 1)>>

\* The guard that only looks for the key.
NoCameraFramesMutKeyOnly(data) == ~data.hasCameraFrames

\* data.get("cameraFrames", []) is empty: the key is missing or the list is.
NoCameraFrames(data) == ~data.hasCameraFrames \/ data.cameraFrames = <<>>

EspFailure(kind) ==
    [error |-> kind, shot |-> NoValue, meta |-> NoValue,
     scale |-> 0, all_geodetic |-> <<>>]

\* esp_parser.parse_esp(filepath, fps, max_keyframes, target_lat,
\* target_lng) on the parsed document data: the set of results the call
\* can have, one for each list _subsample_indices can return.  Besides the
\* returned pair (shot, meta) a result records two locals of the call,
\* scale and all_geodetic.  A keyframe carries t, lat, lng, alt_m and the
\* range of its tilt_deg; its heading_deg is the bearing from that position
\* to the shot's target (trigonometry, not computed here).
ParseEsp(data, fps, max_keyframes, target_lat_arg, target_lng_arg) ==
    IF NoCameraFrames(data) THEN {EspFailure("no_camera_frames")}
    ELSE IF ~data.hasCameraFrames \/ Len(data.cameraFrames) = 0
    THEN {EspFailure("IndexError")}        \* camera_frames[0] of an empty list
    ELSE
    LET camera_frames == data.cameraFrames
        trackpoints == ExtractTrackpoints(data.trackPoints)
        missing == target_lat_arg = None \/ target_lng_arg = None
        \* lines 121-127
        lat1 == IF ~missing THEN Q(target_lat_arg[1])
                ELSE IF trackpoints # <<>> THEN trackpoints[1].lat ELSE Q(0)
        lng1 == IF ~missing THEN Q(target_lng_arg[1])
                ELSE IF trackpoints # <<>> THEN trackpoints[1].lng ELSE Q(0)
        detected == DetectEcefScale(camera_frames[1])
        scale == detected.scale
        all_geodetic ==
            [i \in 1..Len(camera_frames) |->
                EcefToGeodetic(camera_frames[i].x * scale,
                               camera_frames[i].y * scale,
                               camera_frames[i].z * scale)]
        \* lines 144-148
        useMean == lat1[1] = 0 /\ lng1[1] = 0 /\ trackpoints = <<>>
        target_lat == IF useMean
                      THEN Mean([i \in 1..Len(all_geodetic) |-> all_geodetic[i].lat])
                      ELSE lat1
        target_lng == IF useMean
                      THEN Mean([i \in 1..Len(all_geodetic) |-> all_geodetic[i].lng])
                      ELSE lng1
        total_frames == Len(all_geodetic)
        \* lines 154-171, for the list indices of line 153
        Keyframes(indices) ==
            [k \in 1..Len(indices) |->
                LET g == all_geodetic[indices[k] + 1]
                    gd == IF QEqInt(target_lat, g.lat) /\ QEqInt(target_lng, g.lng)
                          THEN "zero" ELSE "any"
                IN  [t |-> ImportTime(indices[k], fps),
                     lat |-> g.lat, lng |-> g.lng, alt_m |-> g.alt,
                     tilt_deg |-> LookAtTiltDeg(Q(g.alt), gd)]]
    IN  IF ~detected.found THEN {EspFailure("no_ecef_scale")}
        ELSE { [error |-> "none",
                shot |-> [style |-> "imported",
                          duration_sec |-> RoundHalfEven(total_frames, Max(fps, 1)),
                          target_lat |-> target_lat,
                          target_lng |-> target_lng,
                          keyframes |-> Keyframes(indices)],
                meta |-> [total_source_frames |-> total_frames,
                          source_fps |-> fps,
                          duration_sec_e2 |-> RoundHalfEven(100 * total_frames, Max(fps, 1)),
                          keyframe_count |-> Len(Keyframes(indices)),
                          trackpoints |-> trackpoints,
                          target_lat |-> target_lat,
                          target_lng |-> target_lng],
                scale |-> scale,
                all_geodetic |-> all_geodetic] :
               indices \in SubsampleIndices(total_frames, max_keyframes) }

(***************************************************************************)
(* Documents and arguments the importer is called with                     *)
(***************************************************************************)
Pos(x, y, z) == [x |-> x, y |-> y, z |-> z]

\* First frames: on the x axis at magnitudes on both sides of and on every
\* band edge, at 1 and at 100 times; and on the other axes.
FirstPositions ==
    { Pos(m, 0, 0) : m \in {0, 2, 3, 200, 255, 256, 320, 321} }
    \cup { Pos(0, 256, 0), Pos(0, 0, 256), Pos(0, 0, -3) }

\* Later frames: at either scale and at the origin.
RestPositions == { Pos(0, 256, 0), Pos(0, 0, 3), Pos(-255, 0, 0), Pos(0, 0, 0) }

FrameSeqs ==
    UNION { { [i \in 1..n |-> IF i = 1 THEN f ELSE rest[i]] :
              f \in FirstPositions, rest \in [1..n -> RestPositions] } :
            n \in 1..MaxFrames }

\* Track-point entries: one that does not decode, and two that do.
BadTrackpoint == [wellFormed |-> FALSE, name |-> "broken", rel |-> <<>>]

TrackpointA ==
    [wellFormed |-> TRUE, name |-> "target",
     rel |-> << <<3, 4>>, <<1, 2>>, <<0, 1>> >>]

TrackpointB ==
    [wellFormed |-> TRUE, name |-> "other",
     rel |-> << <<1, 2>>, <<1, 2>>, <<1, 4>> >>]

TrackpointLists ==
    { <<>>, <<BadTrackpoint>>, <<TrackpointA>>, <<TrackpointB, TrackpointA>>,
      <<BadTrackpoint, TrackpointA, TrackpointB>> }

\* Documents: cameraFrames missing, empty or a list of positions;
\* trackPoints missing (read as the empty list) or a list of entries.
EspDocuments ==
    { [hasCameraFrames |-> FALSE, cameraFrames |-> <<>>, trackPoints |-> tps] :
        tps \in TrackpointLists }
    \cup
    { [hasCameraFrames |-> TRUE, cameraFrames |-> fs, trackPoints |-> tps] :
        fs \in FrameSeqs \cup {<<>>}, tps \in TrackpointLists }

\* The caller's target_lat and target_lng, in 1e-4 degrees or None.
TargetArgs ==
    { <<None, None>>, <<Some(407000), None>>, <<None, Some(-740000)>>,
      <<Some(0), Some(0)>>, <<Some(407000), Some(-740000)>> }

\* fps is any integer of the command line; max_keyframes is left at its
\* default of 25 by every caller, and 2 and 3 make the subsampling happen.
FpsValues == {-1, 0, 2, 24}

MaxKeyframesValues == {2, 3, 25}

\* Largest frame count and largest max_keyframes _subsample_indices is
\* called with on its own, besides the 1000 and 25 of the example and a
\* max_keyframes of 23, where round(step * i) leaves the even neighbour.
MaxTotal == 40

MaxCap == 12

SubsampleCalls ==
    { [fn |-> "_subsample_indices", total |-> n, max_keyframes |-> mk] :
        n \in 1..MaxTotal \cup {1000}, mk \in 2..MaxCap \cup {23, 25} }

ParseEspCalls ==
    { [fn |-> "parse_esp", data |-> d, fps |-> f, max_keyframes |-> mk,
       target_lat |-> tg[1], target_lng |-> tg[2]] :
        d \in EspDocuments, f \in FpsValues, mk \in MaxKeyframesValues,
        tg \in TargetArgs }

EspCalls == ParseEspCalls \cup SubsampleCalls

InitEsp == pc = "call" /\ call \in EspCalls /\ ret = NoValue /\ esp_file = NoValue
    /\ heap = NoValue /\ WebOff

CallParseEsp ==
    /\ pc = "call"
    /\ call.fn = "parse_esp"
    /\ ret' \in ParseEsp(call.data, call.fps, call.max_keyframes,
                         call.target_lat, call.target_lng)
    /\ pc' = "done"
    /\ UNCHANGED <<call, esp_file, heap, web>>

CallSubsampleIndices ==
    /\ pc = "call"
    /\ call.fn = "_subsample_indices"
    /\ ret' \in SubsampleIndices(call.total, call.max_keyframes)
    /\ pc' = "done"
    /\ UNCHANGED <<call, esp_file, heap, web>>

NextEsp == CallParseEsp \/ CallSubsampleIndices

SpecEsp == InitEsp /\ [][NextEsp]_vars

(***************************************************************************)
(* Claims about the importer                                               *)
(***************************************************************************)
EspDone == pc = "done" /\ call.fn = "parse_esp"

EspReturned == EspDone /\ ret.error = "none"

BothSupplied == call.target_lat # None /\ call.target_lng # None

\* The shot and the metadata both carry the target (lat, lng), two rationals.
TargetIs(lat, lng) ==
    /\ QEq(ret.shot.target_lat, lat)
    /\ QEq(ret.shot.target_lng, lng)
    /\ QEq(ret.meta.target_lat, lat)
    /\ QEq(ret.meta.target_lng, lng)

MeanLat == Mean([i \in 1..Len(ret.all_geodetic) |-> ret.all_geodetic[i].lat])

MeanLng == Mean([i \in 1..Len(ret.all_geodetic) |-> ret.all_geodetic[i].lng])

\* C8: the target is resolved by strict priority: the caller's pair when
\* both target_lat and target_lng are supplied, for every file content and
\* every supplied value; otherwise the first decoded track point when one
\* decodes; the mean of all converted frame positions only when there is
\* no track point.
C8_TargetPriority ==
    EspReturned =>
        /\ BothSupplied => TargetIs(Q(call.target_lat[1]), Q(call.target_lng[1]))
        /\ (~BothSupplied /\ ret.meta.trackpoints # <<>>) =>
              TargetIs(ret.meta.trackpoints[1].lat, ret.meta.trackpoints[1].lng)
        /\ (~BothSupplied /\ ret.meta.trackpoints = <<>>) =>
              TargetIs(MeanLat, MeanLng)

\* The squared magnitude of the first camera frame, in ECEF units.
FirstMagSq ==
    LET f == call.data.cameraFrames[1]
    IN  f.x * f.x + f.y * f.y + f.z * f.z

HasFrames == call.data.hasCameraFrames /\ call.data.cameraFrames # <<>>

\* mag within [5,000,000, 8,000,000] m, and strictly within, on squares in
\* ECEF units of 25 km.
BandClosed(magSq) == 200 * 200 <= magSq /\ magSq <= 320 * 320

BandOpen(magSq) == 200 * 200 < magSq /\ magSq < 320 * 320

\* Every frame was converted at the given scale.
AllFramesScaled(scale) ==
    /\ Len(ret.all_geodetic) = Len(call.data.cameraFrames)
    /\ \A i \in 1..Len(call.data.cameraFrames) :
          LET f == call.data.cameraFrames[i]
          IN  ret.all_geodetic[i] = EcefToGeodetic(f.x * scale, f.y * scale, f.z * scale)

\* C9 as stated: the scale is 1 exactly when the first frame's magnitude is
\* in [5,000,000, 8,000,000] with both bounds included, otherwise 100 exactly
\* when 100 times the magnitude is in that band, otherwise the import
\* fails; the chosen scale is applied to every frame.
C9_ScaleBandInclusive ==
    (EspDone /\ HasFrames) =>
        /\ BandClosed(FirstMagSq) =>
              (ret.error = "none" /\ ret.scale = 1 /\ AllFramesScaled(1))
        /\ (~BandClosed(FirstMagSq) /\ BandClosed(10000 * FirstMagSq)) =>
              (ret.error = "none" /\ ret.scale = 100 /\ AllFramesScaled(100))
        /\ (~BandClosed(FirstMagSq) /\ ~BandClosed(10000 * FirstMagSq)) =>
              ret.error = "no_ecef_scale"

\* C9 amended: the scale is 1 exactly when the first frame's magnitude is
\* strictly between 5,000,000 and 8,000,000 (both bounds excluded),
\* otherwise 100 exactly when 100 times the magnitude is strictly between
\* them, otherwise the import fails; no other scale is applied and the
\* chosen scale is applied to every frame.
C9_ScaleBandExclusive ==
    (EspDone /\ HasFrames) =>
        /\ BandOpen(FirstMagSq) =>
              (ret.error = "none" /\ ret.scale = 1 /\ AllFramesScaled(1))
        /\ (~BandOpen(FirstMagSq) /\ BandOpen(10000 * FirstMagSq)) =>
              (ret.error = "none" /\ ret.scale = 100 /\ AllFramesScaled(100))
        /\ (~BandOpen(FirstMagSq) /\ ~BandOpen(10000 * FirstMagSq)) =>
              ret.error = "no_ecef_scale"
        /\ ret.error = "none" => ret.scale \in {1, 100}

\* C9 witness: a first frame at 75 km, outside the band, was read at scale
\* 100, and a later frame of the same document was converted at 100 too.
C9_Witness ==
    /\ EspReturned
    /\ call.data.cameraFrames[1] = Pos(3, 0, 0)
    /\ Len(call.data.cameraFrames) >= 2
    /\ call.data.cameraFrames[2] = Pos(0, 0, 3)
    /\ ret.scale = 100
    /\ ret.all_geodetic[1].alt = 300 * 25000 - 6378137
    /\ ret.all_geodetic[2].lat = 900000

\* A first frame exactly on the lower edge of the band made the import fail.
C9_WitnessEdge ==
    /\ EspDone
    /\ HasFrames
    /\ call.data.cameraFrames[1] = Pos(200, 0, 0)
    /\ ret.error = "no_ecef_scale"

\* C10: parse_esp raises and returns neither shot nor metadata when the
\* document has no cameraFrames (key missing or list empty) or the scale of
\* the first frame cannot be determined; the frames check comes first; in
\* every other case it returns a ShotPlan with at least one keyframe.
C10_FailsClosed ==
    EspDone =>
        /\ ~HasFrames =>
              (ret.error = "no_camera_frames" /\ ret.shot = NoValue /\ ret.meta = NoValue)
        /\ (HasFrames /\ ~BandOpen(FirstMagSq) /\ ~BandOpen(10000 * FirstMagSq)) =>
              (ret.error = "no_ecef_scale" /\ ret.shot = NoValue /\ ret.meta = NoValue)
        /\ (HasFrames /\ (BandOpen(FirstMagSq) \/ BandOpen(10000 * FirstMagSq))) =>
              /\ ret.error = "none"
              /\ ret.shot # NoValue
              /\ ret.meta # NoValue
              /\ Len(ret.shot.keyframes) >= 1

\* C10 witness: a document with an empty cameraFrames list was refused for
\* its missing frames.
C10_Witness ==
    /\ EspDone
    /\ call.data.hasCameraFrames
    /\ call.data.cameraFrames = <<>>
    /\ ret.error = "no_camera_frames"
    /\ ret.shot = NoValue

\* A document of three frames imported with max_keyframes = 2 gave a plan of
\* two keyframes.
C10_WitnessPlan ==
    /\ EspReturned
    /\ Len(call.data.cameraFrames) = 3
    /\ call.max_keyframes = 2
    /\ Len(ret.shot.keyframes) = 2

SubsampleDone == pc = "done" /\ call.fn = "_subsample_indices"

\* C11: for every total >= 1 and max_keyframes >= 2,
\* _subsample_indices(total, max_keyframes) returns 0..total-1 in order when
\* total <= max_keyframes, and otherwise exactly max_keyframes indices,
\* strictly increasing, all within 0..total-1, the first 0 and the last
\* total-1; and an imported plan never has more than max_keyframes
\* keyframes.
C11_SubsampleIndices ==
    /\ SubsampleDone =>
          LET total == call.total
              mk == call.max_keyframes
          IN  /\ total <= mk => ret = [i \in 1..total |-> i - 1]
              /\ total > mk =>
                    /\ Len(ret) = mk
                    /\ \A i \in 1..(Len(ret) - 1) : ret[i] < ret[i + 1]
                    /\ \A i \in 1..Len(ret) : ret[i] \in 0..(total - 1)
                    /\ ret[1] = 0
                    /\ ret[Len(ret)] = total - 1
    /\ EspReturned =>
          /\ Len(ret.shot.keyframes) <= call.max_keyframes
          /\ Len(ret.shot.keyframes) <= Len(call.data.cameraFrames)

\* C11 witness: _subsample_indices(1000, 25) returned 25 indices from 0 to
\* 999.
C11_Witness ==
    /\ SubsampleDone
    /\ call.total = 1000
    /\ call.max_keyframes = 25
    /\ Len(ret) = 25
    /\ ret[1] = 0
    /\ ret[2] = 42
    /\ ret[25] = 999

\* A half of a step that is not a double was rounded away from the even
\* neighbour: _subsample_indices(26, 23) with 13 for 12.5.
C11_WitnessTie ==
    /\ SubsampleDone
    /\ call.total = 26 /\ call.max_keyframes = 23
    /\ Len(ret) = 23
    /\ ret[12] = 13

(***************************************************************************)
(* The interchange exporter (esp_exporter.py)                              *)
(*                                                                         *)
(* Units as in the importer.  Keyframe times of an exported plan are whole *)
(* seconds; frame times are rationals fi / max(fps, 1).  A camera position *)
(* is converted to ECEF where the conversion is exact in integers: on the  *)
(* equator at a longitude that is a multiple of 90 degrees, at a distance  *)
(* from the centre that is a whole number of ECEF units.                   *)
(***************************************************************************)
\* esp_exporter._geodetic_to_ecef(lat_deg, lng_deg, alt_m) at lat = 0 and
\* lng a multiple of 90 degrees: sin_lat = 0, cos_lat = 1, n = EARTH_A, so
\* (x, y, z) = ((n + alt) cos_lng, (n + alt) sin_lng, 0).  lat and lng are
\* rationals in 1e-4 degrees, alt a rational in metres; the result is in
\* ECEF units.  Other points are not converted here (the origin stands for
\* them); no plan drawn below reaches one.
GeodeticToEcef(lat, lng, alt) ==
    LET r == (EarthA * alt[2] + alt[1]) \div (alt[2] * UnitM)
    IN  IF ~QEqInt(lat, 0) THEN [x |-> 0, y |-> 0, z |-> 0]
        ELSE IF QEqInt(lng, 0) THEN [x |-> r, y |-> 0, z |-> 0]
        ELSE IF QEqInt(lng, 900000) THEN [x |-> 0, y |-> r, z |-> 0]
        ELSE IF QEqInt(lng, -900000) THEN [x |-> 0, y |-> -r, z |-> 0]
        ELSE IF QEqInt(lng, 1800000) THEN [x |-> -r, y |-> 0, z |-> 0]
        ELSE [x |-> 0, y |-> 0, z |-> 0]

\* The latitude encoding over the full 180 degrees: (lat + 90) / 180.
LatToRelativeMutNinety(lat_deg) == <<lat_deg + 900000, 1800000>>

\* esp_exporter._lat_to_relative, lat in 1e-4 degrees.
LatToRelative(lat_deg) == <<lat_deg + 899999, 1799998>>

\* esp_exporter._lng_to_relative, lng in 1e-4 degrees.
LngToRelative(lng_deg) == <<lng_deg + 1800000, 3600000>>

\* The altitude encoding without its floor: (alt_m - 1) / 65117481.
AltToRelativeMutNoFloor(alt_m) == <<alt_m - 1, 65117481>>

\* esp_exporter._alt_to_relative: max((alt_m - 1) / 65117481, 0.0).
AltToRelative(alt_m) ==
    IF alt_m - 1 > 0 THEN <<alt_m - 1, 65117481>> ELSE <<0, 1>>

\* The while loop of _interpolate_keyframes (lines 62-63): ki, 0-based,
\* advanced while it is below len - 2 and the next keyframe is before t.
RECURSIVE AdvanceKi(_, _, _)
AdvanceKi(keyframes, ki, t) ==
    IF ki < Len(keyframes) - 2 /\ QLt(Q(keyframes[ki + 2].t), t)
    THEN AdvanceKi(keyframes, ki + 1, t)
    ELSE ki

\* The fraction without its clamp to [0, 1].
ExportFractionMutNoClamp(a, b, t) ==
    IF b.t - a.t > 0
    THEN <<t[1] - a.t * t[2], (b.t - a.t) * t[2]>>
    ELSE <<0, 1>>

\* Lines 67-68: p = max(0, min(1, (t - a.t) / span)), span = max(b.t - a.t,
\* 1e-8).  Keyframe times are whole seconds and t a multiple of 1 / fps, so
\* a span that is floored is 0 or negative, and t - a.t is then 0, negative
\* or at least 1 / fps, far above 1e-8: p is 0 or 1.
ExportFraction(a, b, t) ==
    LET num == t[1] - a.t * t[2]               \* (t - a.t) * t[2]
    IN  IF b.t - a.t > 0
        THEN IF num <= 0 THEN <<0, 1>>
             ELSE IF num >= (b.t - a.t) * t[2] THEN <<1, 1>>
             ELSE <<num, (b.t - a.t) * t[2]>>
        ELSE IF num <= 0 THEN <<0, 1>> ELSE <<1, 1>>

\* The frame time with the index one ahead: t = (fi + 1) / max(fps, 1).
FrameTimeMutAhead(fi, fps) == <<fi + 1, Max(fps, 1)>>

\* Line 60: t = fi / max(fps, 1).
FrameTime(fi, fps) == <<fi, Max(fps, 1)>>

\* Lines 65-74: the locals lat, lng, alt, heading and tilt of the frame for
\* time t with the loop index at ki.
ExportPose(keyframes, ki, t) ==
    LET a == keyframes[ki + 1]
        b == keyframes[Min(ki + 1, Len(keyframes) - 1) + 1]
        p == ExportFraction(a, b, t)
    IN  [lat |-> Lerp(a.lat, b.lat, p),
         lng |-> Lerp(a.lng, b.lng, p),
         alt_m |-> Lerp(a.alt_m, b.alt_m, p),
         heading_deg |-> LerpAngle(a.heading_deg, b.heading_deg, p),
         tilt_deg |-> Lerp(a.tilt_deg, b.tilt_deg, p)]

\* The rotation with the tilt left unflipped.
ExportRotationMutTiltSign(pose) ==
    [x |-> pose.tilt_deg,
     y |-> <<-pose.heading_deg[1], pose.heading_deg[2]>>,
     z |-> <<0, 1>>]

\* Line 80: "rotation": {"x": -tilt, "y": -heading, "z": 0.0}.
ExportRotation(pose) ==
    [x |-> <<-pose.tilt_deg[1], pose.tilt_deg[2]>>,
     y |-> <<-pose.heading_deg[1], pose.heading_deg[2]>>,
     z |-> <<0, 1>>]

\* Lines 65-81: the frame written for time t with the loop index at ki.
ExportFrame(keyframes, ki, t) ==
    LET pose == ExportPose(keyframes, ki, t)
        e == GeodeticToEcef(pose.lat, pose.lng, pose.alt_m)
    IN  [x |-> e.x, y |-> e.y, z |-> e.z,
         rotation |-> ExportRotation(pose)]

\* The frame count one too large.
TotalFramesMutOneMore(duration, fps) ==
    Max((duration[1] * fps) \div duration[2], 1) + 1

\* Line 55: total_frames = max(int(duration * fps), 1), duration a
\* rational.  int() drops the fraction towards 0 and \div towards minus
\* infinity; they differ on negative products only, which the maximum
\* replaces by 1 either way.
TotalFrames(duration, fps) == Max((duration[1] * fps) \div duration[2], 1)

\* The for loop of _interpolate_keyframes from frame fi on, ki carried
\* from frame to frame.
RECURSIVE ExportFramesFrom(_, _, _, _, _)
ExportFramesFrom(keyframes, fps, fi, ki, total_frames) ==
    IF fi >= total_frames THEN <<>>
    ELSE LET t == FrameTime(fi, fps)
             ki2 == AdvanceKi(keyframes, ki, t)
         IN  <<ExportFrame(keyframes, ki2, t)>>
             \o ExportFramesFrom(keyframes, fps, fi + 1, ki2, total_frames)

\* esp_exporter._interpolate_keyframes(keyframes, fps).  duration and fps
\* are integers, so int(duration * fps) is their product.
InterpolateKeyframes(keyframes, fps) ==
    IF keyframes = <<>> THEN <<>>
    ELSE LET duration == keyframes[Len(keyframes)].t
             total_frames == TotalFrames(Q(duration), fps)
         IN  ExportFramesFrom(keyframes, fps, 0, 0, total_frames)

\* The locals lat, lng, alt, heading and tilt of every frame of
\* _interpolate_keyframes, in frame order.
RECURSIVE ExportPosesFrom(_, _, _, _, _)
ExportPosesFrom(keyframes, fps, fi, ki, total_frames) ==
    IF fi >= total_frames THEN <<>>
    ELSE LET t == FrameTime(fi, fps)
             ki2 == AdvanceKi(keyframes, ki, t)
         IN  <<ExportPose(keyframes, ki2, t)>>
             \o ExportPosesFrom(keyframes, fps, fi + 1, ki2, total_frames)

InterpolatePoses(keyframes, fps) ==
    IF keyframes = <<>> THEN <<>>
    ELSE ExportPosesFrom(keyframes, fps, 0, 0,
                         TotalFrames(Q(keyframes[Len(keyframes)].t), fps))

\* esp_exporter.export_esp(shot, output_path, fps): the document written.
\* Of the track point the importer reads the name and the three relative
\* attributes; its ECEF "position" is not read back and is left out.
ExportEsp(shot, fps) ==
    [type |-> "aerial_cinematic_bot_export",
     shot_id |-> shot.shot_id,
     style |-> shot.style,
     fps |-> fps,
     duration_sec |-> shot.duration_sec,
     target |-> [lat |-> shot.target_lat, lng |-> shot.target_lng],
     hasCameraFrames |-> TRUE,
     cameraFrames |-> InterpolateKeyframes(shot.keyframes, fps),
     trackPoints |->
        << [wellFormed |-> TRUE,
            name |-> "target",
            rel |-> << LngToRelative(shot.target_lng),
                       LatToRelative(shot.target_lat),
                       AltToRelative(0) >>] >>]

(***************************************************************************)
(* Specification of the exporter: a plan is exported, and the document     *)
(* written is imported again                                               *)
(***************************************************************************)
\* Latest keyframe time of an exported plan, in seconds.
MaxPlanT == 3

\* Camera poses of the exported plans: on the equator at longitudes 0, 90
\* and 180 degrees, at 6,400,000 m and 6,700,000 m from the centre (256 and
\* 268 ECEF units), and one at 8,000,000 m (320 units, altitude
\* 1,621,863 m).
ExportPoses ==
    { [lat |-> 0, lng |-> 0, alt_m |-> 21863, heading_deg |-> 350, tilt_deg |-> 45],
      [lat |-> 0, lng |-> 0, alt_m |-> 321863, heading_deg |-> 10, tilt_deg |-> 60],
      [lat |-> 0, lng |-> 900000, alt_m |-> 21863, heading_deg |-> 90, tilt_deg |-> 30],
      [lat |-> 0, lng |-> 1800000, alt_m |-> 321863, heading_deg |-> 180, tilt_deg |-> 89],
      [lat |-> 0, lng |-> 0, alt_m |-> 1621863, heading_deg |-> 0, tilt_deg |-> 5] }

\* Keyframe times of a plan: whole seconds, the first 0, strictly
\* increasing.
PlanTimes(n) ==
    { ts \in [1..n -> 0..MaxPlanT] :
        ts[1] = 0 /\ \A i \in 1..(n - 1) : ts[i] < ts[i + 1] }

PlanKeyframes ==
    UNION { { [i \in 1..n |->
                 CameraKeyframe(ts[i], ps[i].lat, ps[i].lng, ps[i].alt_m,
                                ps[i].heading_deg, ps[i].tilt_deg)] :
              ts \in PlanTimes(n), ps \in [1..n -> ExportPoses] } :
            n \in 1..MaxKeyframes }

\* The position a plan's path has at time t (a rational within the plan's
\* span): on the straight line between the two keyframes around t.
PlanAt(keyframes, t) ==
    LET n == Len(keyframes)
        Around(i) == keyframes[i].t * t[2] <= t[1] /\ t[1] <= keyframes[i + 1].t * t[2]
    IN  IF n = 1 \/ ~\E i \in 1..(n - 1) : Around(i)
        THEN LET k == IF n = 1 \/ t[1] <= keyframes[1].t * t[2]
                      THEN keyframes[1] ELSE keyframes[n]
             IN  [lat |-> Q(k.lat), lng |-> Q(k.lng), alt_m |-> Q(k.alt_m)]
        ELSE LET i == CHOOSE j \in 1..(n - 1) : Around(j)
                 a == keyframes[i]
                 b == keyframes[i + 1]
                 num == t[1] - a.t * t[2]
                 den == (b.t - a.t) * t[2]
             IN  [lat |-> <<a.lat * den + (b.lat - a.lat) * num, den>>,
                  lng |-> <<a.lng * den + (b.lng - a.lng) * num, den>>,
                  alt_m |-> <<a.alt_m * den + (b.alt_m - a.alt_m) * num, den>>]

\* A point where GeodeticToEcef is exact: on the equator, at a longitude
\* that is a multiple of 90 degrees, a whole number of ECEF units out.
OnGrid(g) ==
    /\ QEqInt(g.lat, 0)
    /\ \E lng \in {0, 900000, -900000, 1800000} : QEqInt(g.lng, lng)
    /\ (EarthA * g.alt_m[2] + g.alt_m[1]) % (g.alt_m[2] * UnitM) = 0

\* The frame times of a plan exported at fps.
FrameCount(keyframes, fps) == Max(keyframes[Len(keyframes)].t * fps, 1)

\* The plan's path is on the grid at every frame time.
FramesOnGrid(keyframes, fps) ==
    \A fi \in 0..(FrameCount(keyframes, fps) - 1) :
        OnGrid(PlanAt(keyframes, <<fi, Max(fps, 1)>>))

ExportTargets == { <<407000, -740000>>, <<0, 0>> }

ExportFpsValues == {0, 1, 2}

\* Calls of export_esp: every plan, target and fps whose frames are on the
\* grid.
ExportCalls ==
    { c \in { [fn |-> "export_esp", fps |-> f,
               shot |-> [shot_id |-> "shot", style |-> "helicopter",
                         duration_sec |-> ks[Len(ks)].t,
                         target_lat |-> tg[1], target_lng |-> tg[2],
                         keyframes |-> ks]] :
                f \in ExportFpsValues, tg \in ExportTargets, ks \in PlanKeyframes } :
        FramesOnGrid(c.shot.keyframes, c.fps) }

\* Altitudes _alt_to_relative is called with on its own, in metres.
Altitudes == {-5, -1, 0, 1, 2, 3, 10, 30}

AltCalls == { [fn |-> "_alt_to_relative", alt_m |-> a] : a \in Altitudes }

InitExport ==
    /\ pc = "call"
    /\ call \in ExportCalls \cup AltCalls
    /\ ret = NoValue
    /\ esp_file = NoValue
    /\ heap = NoValue
    /\ WebOff

\* export_esp(shot, output_path, fps=fps) writes the document and returns
\* None.
CallExportEsp ==
    /\ pc = "call"
    /\ call.fn = "export_esp"
    /\ esp_file' = ExportEsp(call.shot, call.fps)
    /\ ret' = None
    /\ pc' = "exported"
    /\ UNCHANGED <<call, heap, web>>

\* The written document is handed to parse_esp, at the fps it was exported
\* at: with target_lat and target_lng pinned to the plan's target, or
\* without a target.  The call keeps the exported plan beside the
\* arguments, for comparison.
Reimport ==
    /\ pc = "exported"
    /\ \E mk \in MaxKeyframesValues, pinned \in BOOLEAN :
          call' = [fn |-> "parse_esp",
                   data |-> esp_file,
                   fps |-> call.fps,
                   max_keyframes |-> mk,
                   target_lat |-> IF pinned THEN Some(call.shot.target_lat) ELSE None,
                   target_lng |-> IF pinned THEN Some(call.shot.target_lng) ELSE None,
                   exported |-> call.shot]
    /\ ret' = NoValue
    /\ pc' = "call"
    /\ UNCHANGED <<esp_file, heap, web>>

\* _alt_to_relative(alt_m) called on its own.
CallAltToRelative ==
    /\ pc = "call"
    /\ call.fn = "_alt_to_relative"
    /\ ret' = AltToRelative(call.alt_m)
    /\ pc' = "done"
    /\ UNCHANGED <<call, esp_file, heap, web>>

NextExport == CallExportEsp \/ Reimport \/ CallParseEsp \/ CallAltToRelative

SpecExport == InitExport /\ [][NextExport]_vars

(***************************************************************************)
(* Claims about the exporter                                               *)
(***************************************************************************)
\* The import of the exported document kept the pinned target, counted the
\* exported frames, detected scale 1, and every keyframe it returned is at
\* t = idx / max(fps, 1) for a source frame index idx, at the position of
\* that frame, which is where the exported plan's path is at that time.
RoundTripHolds ==
    LET f == Max(call.fps, 1)
        total == Len(esp_file.cameraFrames)
    IN  /\ ret.error = "none"
        /\ ret.scale = 1
        /\ ret.meta.total_source_frames = total
        /\ total = FrameCount(call.exported.keyframes, call.fps)
        /\ TargetIs(Q(call.exported.target_lat), Q(call.exported.target_lng))
        /\ \A k \in 1..Len(ret.shot.keyframes) :
              LET kf == ret.shot.keyframes[k]
                  idx == kf.t[1]
                  g == PlanAt(call.exported.keyframes, <<idx, f>>)
              IN  /\ kf.t[2] = f
                  /\ idx \in 0..(total - 1)
                  /\ kf.lat = ret.all_geodetic[idx + 1].lat
                  /\ kf.lng = ret.all_geodetic[idx + 1].lng
                  /\ kf.alt_m = ret.all_geodetic[idx + 1].alt
                  /\ QEqInt(g.lat, kf.lat)
                  /\ QEqInt(g.lng, kf.lng)
                  /\ QEqInt(g.alt_m, kf.alt_m)

\* C12 as stated: exporting a plan at fps f and importing the document at
\* the same fps with the target pinned to the plan's target succeeds with
\* scale 1, reports the number of exported frames, keeps the pinned target,
\* and every recovered keyframe taken from source frame idx has time idx / f
\* and the position the plan interpolates to at that time.
C12_RoundTripAsStated ==
    (EspDone /\ BothSupplied /\ call.fps >= 1) => RoundTripHolds

\* C12 amended: the same, for a plan whose first exported frame lies
\* strictly between 5,000,000 m and 8,000,000 m from the Earth's centre
\* (a camera below about 1,620 km); the frame times are idx / max(f, 1).
\* A plan that starts farther out is exported, and the import of the
\* document fails at scale detection.
C12_RoundTripInBand ==
    /\ (EspDone /\ BothSupplied /\ BandOpen(FirstMagSq)) => RoundTripHolds
    /\ (EspDone /\ ~BandOpen(FirstMagSq)) => ret.error = "no_ecef_scale"

\* C12 witness: a climb from 21,863 m to 321,863 m over 3 s, exported at
\* fps 2 as six frames and imported with max_keyframes = 3, came back with
\* its last keyframe from frame 5, at t = 5/2 and 271,863 m.
C12_Witness ==
    /\ EspReturned
    /\ BothSupplied
    /\ call.fps = 2
    /\ call.max_keyframes = 3
    /\ Len(call.exported.keyframes) = 2
    /\ Len(esp_file.cameraFrames) = 6
    /\ Len(ret.shot.keyframes) = 3
    /\ ret.shot.keyframes[3].t = <<5, 2>>
    /\ ret.shot.keyframes[3].alt_m = 271863
    /\ RoundTripHolds

\* A plan that turns from longitude 0 to longitude 90 between two frames
\* came back with both positions.
C12_WitnessTurn ==
    /\ EspReturned
    /\ BothSupplied
    /\ Len(ret.shot.keyframes) >= 2
    /\ ret.shot.keyframes[1].lng = 0
    /\ ret.shot.keyframes[2].lng = 900000
    /\ RoundTripHolds

\* A plan that starts at 1,621,863 m was exported and the import failed.
C12_WitnessTooHigh ==
    /\ EspDone
    /\ BothSupplied
    /\ call.exported.keyframes[1].alt_m = 1621863
    /\ Len(esp_file.cameraFrames) >= 1
    /\ ret.error = "no_ecef_scale"

\* The plan that was exported: the argument of export_esp, kept by the
\* call of parse_esp that reads the document.
ExportedShot == IF call.fn = "export_esp" THEN call.shot ELSE call.exported

Exported == esp_file # NoValue

\* C14: the document written by export_esp has exactly one track point,
\* named "target", whose relative attributes are longitude, latitude and
\* altitude in this order; the importer's track-point decoding gives the
\* plan's target_lat and target_lng for it; and an import of the document
\* without an explicit target resolves the plan's target.
C14_TargetTrackpoint ==
    /\ Exported =>
          LET tps == esp_file.trackPoints
              decoded == ExtractTrackpoints(tps)
          IN  /\ Len(tps) = 1
              /\ tps[1].name = "target"
              /\ tps[1].rel[1] = <<ExportedShot.target_lng + 1800000, 3600000>>
              /\ tps[1].rel[2] = <<ExportedShot.target_lat + 899999, 1799998>>
              /\ Len(decoded) = 1
              /\ decoded[1].name = "target"
              /\ QEqInt(decoded[1].lat, ExportedShot.target_lat)
              /\ QEqInt(decoded[1].lng, ExportedShot.target_lng)
    /\ (EspReturned /\ ~BothSupplied) =>
          /\ Len(ret.meta.trackpoints) = 1
          /\ TargetIs(Q(call.exported.target_lat), Q(call.exported.target_lng))

\* C14 witness: a plan with target (40.7, -74.0) was exported and imported
\* without a target, and the import resolved (40.7, -74.0) from the track
\* point.
C14_Witness ==
    /\ EspReturned
    /\ ~BothSupplied
    /\ call.exported.target_lat = 407000
    /\ call.exported.target_lng = -740000
    /\ esp_file.trackPoints[1].rel[1] = <<1060000, 3600000>>
    /\ QEqInt(ret.shot.target_lat, 407000)
    /\ QEqInt(ret.shot.target_lng, -740000)

AltDone == pc = "done" /\ call.fn = "_alt_to_relative"

\* The importer's decoding of a relative altitude (line 78).
DecodedAlt(rel) ==
    DecodeTrackpoint([name |-> "", rel |-> << <<0, 1>>, <<0, 1>>, rel >>]).alt

\* C15 as stated: export and import use the same altitude encoding,
\* relative = (alt - 1) / 65117481; the exported target track point,
\* written at altitude 0, carries (0 - 1) / 65117481 and decodes on import
\* to altitude 0.
C15_SameAltEncodingAsStated ==
    /\ AltDone =>
          /\ QEq(ret, <<call.alt_m - 1, 65117481>>)
          /\ QEqInt(DecodedAlt(ret), call.alt_m)
    /\ Exported =>
          /\ QEq(esp_file.trackPoints[1].rel[3], <<0 - 1, 65117481>>)
          /\ QEqInt(DecodedAlt(esp_file.trackPoints[1].rel[3]), 0)
    /\ EspReturned => QEqInt(ret.meta.trackpoints[1].alt, 0)

\* C15 amended: export encodes an altitude as
\* max((alt - 1) / 65117481, 0) and import decodes 65117481 * relative + 1:
\* the two agree for alt >= 1, and an altitude below 1 is written as
\* relative 0, which decodes to altitude 1.  The exported target track
\* point, written at altitude 0, carries relative altitude 0 and decodes
\* on import to altitude 1.
C15_AltEncodingFloored ==
    /\ AltDone =>
          /\ call.alt_m >= 1 =>
                /\ QEq(ret, <<call.alt_m - 1, 65117481>>)
                /\ QEqInt(DecodedAlt(ret), call.alt_m)
          /\ call.alt_m < 1 =>
                /\ QEqInt(ret, 0)
                /\ QEqInt(DecodedAlt(ret), 1)
    /\ Exported =>
          /\ QEqInt(esp_file.trackPoints[1].rel[3], 0)
          /\ QEqInt(DecodedAlt(esp_file.trackPoints[1].rel[3]), 1)
    /\ EspReturned => QEqInt(ret.meta.trackpoints[1].alt, 1)

\* C15 witness: the import of an exported document decoded the target
\* track point, written at altitude 0 as relative 0, to altitude 1.
C15_Witness ==
    /\ EspReturned
    /\ QEqInt(esp_file.trackPoints[1].rel[3], 0)
    /\ Len(ret.meta.trackpoints) = 1
    /\ ret.meta.trackpoints[1].name = "target"
    /\ QEqInt(ret.meta.trackpoints[1].alt, 1)

\* _alt_to_relative(30) returned 29 / 65117481, which decodes to 30.
C15_WitnessAbove ==
    /\ AltDone
    /\ call.alt_m = 30
    /\ ret = <<29, 65117481>>
    /\ QEqInt(DecodedAlt(ret), 30)

(***************************************************************************)
(* Reference variants (app.py)                                             *)
(*                                                                         *)
(* _shift_keyframes_to_reference moves a catalog plan towards a reference  *)
(* image.  The new lat and lng are the old offsets from the target times   *)
(* distance_scale and the new heading is the old one plus                  *)
(* heading_shift_deg, mod 360 (trigonometry, not computed here): a shifted *)
(* keyframe carries the two arguments beside its t, alt_m and tilt_deg.    *)
(***************************************************************************)
\* The product of two rationals.
QTimes(q, r) == <<q[1] * r[1], q[2] * r[2]>>

\* max(low, q) for an integer low and a rational q.
QMaxInt(low, q) == IF QLt(q, Q(low)) THEN Q(low) ELSE q

\* app._shift_keyframes_to_reference(shot, heading_shift_deg,
\* tilt_shift_deg, distance_scale, altitude_scale, speed_scale): the plans
\* the call can return, one for each value of round(duration_sec *
\* speed_scale).  The scales are rationals, the shifts are in hundredths of
\* a degree.
ShiftKeyframesToReference(shot, heading_shift_deg, tilt_shift_deg, distance_scale, altitude_scale, speed_scale) ==
    LET transformed ==
            [i \in 1..Len(shot.keyframes) |->
                LET k == shot.keyframes[i]
                IN  [t |-> QTimes(k.t, speed_scale),
                     distance_scale |-> distance_scale,
                     alt_m |-> QMaxInt(5, QTimes(k.alt_m, altitude_scale)),
                     heading_shift_deg |-> heading_shift_deg,
                     tilt_deg |-> ClampTilt(ShiftTilt(k.tilt_deg, tilt_shift_deg))]]
    IN  { [shot_id |-> shot.shot_id,
           style |-> shot.style,
           duration_sec |-> Max(1, rounded),
           target_lat |-> shot.target_lat,
           target_lng |-> shot.target_lng,
           keyframes |-> transformed] :
          rounded \in RoundStepTimes(speed_scale, shot.duration_sec) }

\* The plan _shot_plan_by_id hands to the variants: entry n of the whole
\* catalog for the task's target and duration.
BaseShot(target_lat, target_lng, duration_sec, n) ==
    GenerateShotPlans(target_lat, target_lng, duration_sec,
                      Len(Builders)).plans[n]

\* What the variants are built with.  The web handlers keep duration_sec
\* in 3..60; _analyze_reference_image and _build_reference_variants keep
\* speed_scale in 0.7..1.5 (1 when there are no hints, times 1.10 and 0.92
\* for variants B and C), altitude_scale in 0.08..1.8 and tilt_shift_deg in
\* -16..16.
ShiftDurations == {3, 7, 60}

SpeedScales == { <<n, 100>> : n \in {70, 92, 100, 105, 110, 150} }

AltitudeScales == { <<n, 100>> : n \in {8, 100, 180} }

TiltShifts == {-1600, -200, 0, 200, 1600}

ShiftCalls ==
    { [fn |-> "_shift_keyframes_to_reference",
       shot |-> BaseShot(40, -73, d, n),
       heading_shift_deg |-> 0, tilt_shift_deg |-> ts,
       distance_scale |-> <<1, 1>>, altitude_scale |-> as,
       speed_scale |-> ss] :
        d \in ShiftDurations, n \in 1..Len(Builders), ts \in TiltShifts,
        as \in AltitudeScales, ss \in SpeedScales }

CallShiftKeyframesToReference ==
    /\ pc = "call"
    /\ call.fn = "_shift_keyframes_to_reference"
    /\ ret' \in ShiftKeyframesToReference(call.shot, call.heading_shift_deg,
                                          call.tilt_shift_deg, call.distance_scale,
                                          call.altitude_scale, call.speed_scale)
    /\ pc' = "done"
    /\ UNCHANGED <<call, esp_file, heap, web>>

(***************************************************************************)
(* The producers of shot plans: the catalog, the importer and the          *)
(* reference variants                                                      *)
(***************************************************************************)
InitProducers ==
    /\ pc = "call"
    /\ call \in ShotCalls \cup ParseEspCalls \cup ShiftCalls
    /\ ret = NoValue
    /\ esp_file = NoValue
    /\ heap = NoValue
    /\ WebOff

NextProducers ==
    CallGenerateShotPlans \/ CallParseEsp \/ CallShiftKeyframesToReference

SpecProducers == InitProducers /\ [][NextProducers]_vars

(***************************************************************************)
(* Claims about every producer                                             *)
(***************************************************************************)
ShiftDone == pc = "done" /\ call.fn = "_shift_keyframes_to_reference"

\* The plans the finished call has produced.
ProducedPlans ==
    IF ShotsDone /\ ret.error = "none"
    THEN { ret.plans[n] : n \in 1..Len(ret.plans) }
    ELSE IF EspDone /\ ret.error = "none" THEN {ret.shot}
    ELSE IF ShiftDone THEN {ret}
    ELSE {}

LastT(plan) == plan.keyframes[Len(plan.keyframes)].t

\* C16: every plan a producer returns (generate_shot_plans, parse_esp,
\* _shift_keyframes_to_reference) has duration_sec >= the t of its last
\* keyframe.
C16_DurationCoversLastKeyframe ==
    \A plan \in ProducedPlans :
        Len(plan.keyframes) > 0 => ~QLt(Q(plan.duration_sec), LastT(plan))

\* The tilt of the keyframe lies outside [5, 89] degrees wherever in its
\* range it is.
TiltOutside(k) == k.tilt_deg.hi < MinTiltDeg \/ k.tilt_deg.lo > MaxTiltDeg

\* C17: every keyframe of every plan a producer returns has its tilt_deg
\* within [5, 89] degrees.  Stated on the ranges: no keyframe's tilt lies
\* outside the interval for certain.
C17_TiltWithinDomain ==
    \A plan \in ProducedPlans :
        \A i \in 1..Len(plan.keyframes) : ~TiltOutside(plan.keyframes[i])

\* The builders and the reference variants clamp: their ranges lie inside
\* [5, 89] whole.
C17_ClampingProducers ==
    (ShotsDone \/ ShiftDone) =>
        \A plan \in ProducedPlans :
            \A i \in 1..Len(plan.keyframes) :
                /\ plan.keyframes[i].tilt_deg.lo >= MinTiltDeg
                /\ plan.keyframes[i].tilt_deg.hi <= MaxTiltDeg

\* Rational times grow strictly along the keyframes.
TimesIncrease(keyframes) ==
    \A i \in 1..(Len(keyframes) - 1) : QLt(keyframes[i].t, keyframes[i + 1].t)

\* The plans C18 speaks of: those of generate_shot_plans called with
\* duration_sec >= 1 and the one of a parse_esp that returned.
TimedPlans ==
    IF (ShotsDone /\ call.duration_sec >= 1) \/ EspReturned
    THEN ProducedPlans ELSE {}

\* C18: every plan returned by generate_shot_plans (duration_sec >= 1) or by
\* a parse_esp that returned, whatever fps is, has at least one keyframe,
\* a first keyframe with t = 0 and strictly increasing keyframe times; for
\* parse_esp every keyframe is some source frame idx with
\* t = idx / max(fps, 1), and the metadata keyframe_count is the number of
\* keyframes.
C18_KeyframeTimes ==
    /\ \A plan \in TimedPlans :
          /\ Len(plan.keyframes) >= 1
          /\ QEqInt(plan.keyframes[1].t, 0)
          /\ TimesIncrease(plan.keyframes)
    /\ EspReturned =>
          /\ ret.meta.keyframe_count = Len(ret.shot.keyframes)
          /\ \A i \in 1..Len(ret.shot.keyframes) :
                \E idx \in 0..(Len(ret.all_geodetic) - 1) :
                    LET k == ret.shot.keyframes[i]
                        g == ret.all_geodetic[idx + 1]
                    IN  /\ k.t = <<idx, IF call.fps >= 1 THEN call.fps ELSE 1>>
                        /\ k.lat = g.lat /\ k.lng = g.lng /\ k.alt_m = g.alt

\* C18 witness: three frames imported at fps = 0 with max_keyframes = 2 gave
\* the keyframes of frames 0 and 2 at t = 0 and t = 2.
C18_Witness ==
    /\ EspReturned
    /\ call.fps = 0
    /\ Len(call.data.cameraFrames) = 3
    /\ call.max_keyframes = 2
    /\ ret.meta.keyframe_count = 2
    /\ ret.shot.keyframes[1].t = <<0, 1>>
    /\ ret.shot.keyframes[2].t = <<2, 1>>

\* A catalog plan of 3 seconds has thirteen keyframes from t = 0 to t = 3.
C18_WitnessCatalog ==
    /\ ShotsDone
    /\ call.duration_sec = 3
    /\ call.num_shots = 2
    /\ Len(ret.plans[2].keyframes) = 13
    /\ QEqInt(ret.plans[2].keyframes[1].t, 0)
    /\ QEqInt(ret.plans[2].keyframes[13].t, 3)

(***************************************************************************)
(* Claims about the parameters of generate_shot_plans                      *)
(***************************************************************************)
ShotsFailed == ret.error # "none" /\ ret.plans = <<>>

\* C19: generate_shot_plans called with a duration_sec of 0 or below fails
\* with an error and returns no plan.
C19_NonPositiveDurationFails ==
    (ShotsDone /\ call.duration_sec <= 0) => ShotsFailed

\* C20: generate_shot_plans called with num_shots above the catalog size of
\* ten fails with an error and returns no list of plans.
C20_TooManyShotsFails ==
    (ShotsDone /\ call.num_shots > Len(ClaimedCatalog)) => ShotsFailed

MainDone == pc = "done" /\ call.fn = "main"

\* C20 as it holds: generate_shot_plans called with num_shots above ten
\* returns the ten plans of the catalog, in order; it is the command line
\* (bot.main) that fails with an error, and hands no plan on, for --shots
\* above ten.
C20_CliRejectsCatalogCaps ==
    /\ (ShotsDone /\ call.num_shots > Len(ClaimedCatalog)) =>
          /\ ret.error = "none"
          /\ Len(ret.plans) = Len(ClaimedCatalog)
          /\ \A n \in 1..Len(ret.plans) : ret.plans[n].shot_id = ClaimedCatalog[n]
    /\ (MainDone /\ call.shots > Len(ClaimedCatalog)) =>
          (ret.error = "ValueError" /\ ret.plans = <<>>)

\* C20 witness: the command line with --shots 11 raised the ValueError.
C20_Witness ==
    /\ MainDone
    /\ call.shots = 11
    /\ call.duration_sec = 3
    /\ ret.error = "ValueError"
    /\ ret.plans = <<>>

\* generate_shot_plans called with num_shots = 11 returned ten plans.
C20_WitnessCapped ==
    /\ ShotsDone
    /\ call.num_shots = 11
    /\ call.duration_sec = 3
    /\ ret.error = "none"
    /\ Len(ret.plans) = 10

(***************************************************************************)
(* Motion analysis (recommender.py)                                        *)
(*                                                                         *)
(* The analysed keyframes lie on the meridian of the shot's target: a      *)
(* keyframe carries north_m, its distance north of the target in metres,   *)
(* in place of lat and lng (lat = target_lat + degrees(north_m / R),       *)
(* lng = target_lng).  On a meridian the haversine distance of two points  *)
(* is R times the difference of their latitudes in radians, that is the    *)
(* difference of their north_m, and the radius of a keyframe is its        *)
(* |north_m|.  Times are whole seconds.                                    *)
(***************************************************************************)
\* Keyframe times of analysed plans are drawn from 0..MaxAnalysisT.
MaxAnalysisT == 2

\* The sum of two rationals.
QPlus(q, r) == <<q[1] * r[2] + r[1] * q[2], q[2] * r[2]>>

\* The least integer not below the rational q (q >= 0): q <= c holds for an
\* integer c exactly when QCeil(q) <= c.
QCeil(q) == (q[1] + q[2] - 1) \div q[2]

RECURSIVE QSum(_)
QSum(qs) == IF qs = <<>> THEN Q(0) ELSE QPlus(QSum(Tail(qs)), Head(qs))

\* statistics.mean of a non-empty list of rationals.
QMean(qs) == LET total == QSum(qs) IN <<total[1], total[2] * Len(qs)>>

RECURSIVE QMin(_)
QMin(qs) ==
    IF Len(qs) = 1 THEN qs[1]
    ELSE LET m == QMin(Tail(qs)) IN IF QLt(m, qs[1]) THEN m ELSE qs[1]

RECURSIVE QMaxOf(_)
QMaxOf(qs) ==
    IF Len(qs) = 1 THEN qs[1]
    ELSE LET m == QMaxOf(Tail(qs)) IN IF QLt(qs[1], m) THEN m ELSE qs[1]

\* math.sqrt on the integers it is given here, which are squares: the
\* integer r with r * r <= n < (r + 1) * (r + 1).
RECURSIVE SqrtLoop(_, _, _)
SqrtLoop(n, lo, hi) ==
    IF lo >= hi THEN lo
    ELSE LET mid == (lo + hi + 1) \div 2
         IN  IF mid * mid <= n THEN SqrtLoop(n, mid, hi)
             ELSE SqrtLoop(n, lo, mid - 1)

Sqrt(n) == SqrtLoop(n, 0, Min(n, 40000))

\* _haversine_m between two points of the meridian.
HaversineM(north_a, north_b) == Abs(north_a - north_b)

\* dt = max(b.t - a.t, 1e-6), line 25.
SegmentDt(a, b) == IF b.t - a.t >= 1 THEN Q(b.t - a.t) ELSE <<1, 1000000>>

\* recommender.segment_metrics(keyframes).
SegmentMetrics(keyframes) ==
    [i \in 1..(Len(keyframes) - 1) |->
        LET a == keyframes[i]
            b == keyframes[i + 1]
            dt == SegmentDt(a, b)
            ground_dist == HaversineM(a.north_m, b.north_m)
            vertical_dist == Abs(b.alt_m - a.alt_m)
            dist_3d == Sqrt(ground_dist * ground_dist + vertical_dist * vertical_dist)
        IN  [segment_index |-> i - 1,
             t_start |-> a.t,
             t_end |-> b.t,
             ground_distance_m |-> ground_dist,
             vertical_distance_m |-> vertical_dist,
             distance_3d_m |-> dist_3d,
             speed_mps |-> <<dist_3d * dt[2], dt[1]>>]]

\* The speeds without the fallback list.
SpeedsOfMutNoFallback(segments) ==
    [i \in 1..Len(segments) |-> segments[i].speed_mps]

\* Line 46: [s["speed_mps"] for s in segments] or [0.0].
SpeedsOf(segments) ==
    IF Len(segments) = 0 THEN << Q(0) >>
    ELSE [i \in 1..Len(segments) |-> segments[i].speed_mps]

\* recommender.summarize_motion(shot).  statistics.mean raises a
\* StatisticsError on an empty list; it is the first call to meet one.
SummarizeMotion(shot) ==
    LET segments == SegmentMetrics(shot.keyframes)
        speeds == SpeedsOf(segments)
        altitudes == [i \in 1..Len(shot.keyframes) |-> Q(shot.keyframes[i].alt_m)]
        radii == [i \in 1..Len(shot.keyframes) |->
                    Q(HaversineM(shot.keyframes[i].north_m, 0))]
    IN  IF Len(speeds) = 0 \/ Len(altitudes) = 0 \/ Len(radii) = 0
        THEN [error |-> "StatisticsError", motion |-> NoValue]
        ELSE [error |-> "none",
              motion |->
                [duration_sec |-> shot.duration_sec,
                 keyframe_count |-> Len(shot.keyframes),
                 segment_count |-> Len(segments),
                 avg_speed_mps |-> QMean(speeds),
                 min_speed_mps |-> QMin(speeds),
                 max_speed_mps |-> QMaxOf(speeds),
                 avg_altitude_m |-> QMean(altitudes),
                 min_altitude_m |-> QMin(altitudes),
                 max_altitude_m |-> QMaxOf(altitudes),
                 avg_radius_m |-> QMean(radii),
                 min_radius_m |-> QMin(radii),
                 max_radius_m |-> QMaxOf(radii)]]

\* recommender.build_shot_analysis(shot): the error of summarize_motion,
\* or the four entries of the analysis.  recommend_platform compares the
\* three statistics with integer thresholds, which their ceilings decide.
BuildShotAnalysis(shot) ==
    LET summary == SummarizeMotion(shot)
    IN  IF summary.error # "none"
        THEN [error |-> summary.error, analysis |-> NoValue]
        ELSE [error |-> "none",
              analysis |->
                [shot |-> shot,
                 motion |-> summary.motion,
                 recommendation |->
                    RecommendPlatform(
                        [max_altitude_m |-> QCeil(summary.motion.max_altitude_m),
                         max_speed_mps |-> QCeil(summary.motion.max_speed_mps),
                         avg_radius_m |-> QCeil(summary.motion.avg_radius_m)]),
                 segments |-> SegmentMetrics(shot.keyframes)]]

\* Where the analysed keyframes are: north_m and alt_m in metres.  Any two
\* of the points are 0, 3, 4 or 5 m apart.
AnalysisPoints ==
    { [north_m |-> 0, alt_m |-> 116], [north_m |-> 3, alt_m |-> 116],
      [north_m |-> 3, alt_m |-> 120] }

\* Analysed plans: none to MaxKeyframes keyframes at non-decreasing times.
AnalysisShots ==
    UNION { { [duration_sec |-> MaxAnalysisT, target_lat |-> 40, target_lng |-> -73,
               keyframes |->
                 [i \in 1..n |-> [t |-> ts[i], north_m |-> ps[i].north_m,
                                  alt_m |-> ps[i].alt_m]]] :
              ts \in { f \in [1..n -> 0..MaxAnalysisT] :
                         \A i \in 1..(n - 1) : f[i] <= f[i + 1] },
              ps \in [1..n -> AnalysisPoints] } :
            n \in 0..MaxKeyframes }

AnalysisCalls ==
    { [fn |-> f, shot |-> sh] :
        f \in {"summarize_motion", "build_shot_analysis"}, sh \in AnalysisShots }

InitAnalysis ==
    /\ pc = "call"
    /\ call \in AnalysisCalls
    /\ ret = NoValue
    /\ esp_file = NoValue
    /\ heap = NoValue
    /\ WebOff

CallSummarizeMotion ==
    /\ pc = "call"
    /\ call.fn = "summarize_motion"
    /\ ret' = SummarizeMotion(call.shot)
    /\ pc' = "done"
    /\ UNCHANGED <<call, esp_file, heap, web>>

CallBuildShotAnalysis ==
    /\ pc = "call"
    /\ call.fn = "build_shot_analysis"
    /\ ret' = BuildShotAnalysis(call.shot)
    /\ pc' = "done"
    /\ UNCHANGED <<call, esp_file, heap, web>>

NextAnalysis == CallSummarizeMotion \/ CallBuildShotAnalysis

SpecAnalysis == InitAnalysis /\ [][NextAnalysis]_vars

(***************************************************************************)
(* Claims about the motion analysis                                        *)
(***************************************************************************)
AnalysisDone ==
    pc = "done" /\ call.fn \in {"summarize_motion", "build_shot_analysis"}

\* The statistics of the finished call.
MotionOf == IF call.fn = "summarize_motion" THEN ret.motion ELSE ret.analysis.motion

\* C21: summarize_motion and build_shot_analysis raise an error and return
\* no statistics for a plan without keyframes; for a plan of one keyframe
\* they return with segment_count 0 and an average, a minimum and a maximum
\* speed of 0.
C21_EmptyFailsSingleIsStill ==
    AnalysisDone =>
        /\ Len(call.shot.keyframes) = 0 =>
              /\ ret.error # "none"
              /\ call.fn = "summarize_motion" => ret.motion = NoValue
              /\ call.fn = "build_shot_analysis" => ret.analysis = NoValue
        /\ Len(call.shot.keyframes) = 1 =>
              /\ ret.error = "none"
              /\ MotionOf.segment_count = 0
              /\ QEqInt(MotionOf.avg_speed_mps, 0)
              /\ QEqInt(MotionOf.min_speed_mps, 0)
              /\ QEqInt(MotionOf.max_speed_mps, 0)

\* C21 witness: summarize_motion raised on a plan without keyframes.
C21_Witness ==
    /\ AnalysisDone
    /\ call.fn = "summarize_motion"
    /\ call.shot.keyframes = <<>>
    /\ ret.error = "StatisticsError"
    /\ ret.motion = NoValue

\* build_shot_analysis returned for a plan of one keyframe, with no
\* segments and a maximum speed of 0.
C21_WitnessSingle ==
    /\ AnalysisDone
    /\ call.fn = "build_shot_analysis"
    /\ Len(call.shot.keyframes) = 1
    /\ ret.error = "none"
    /\ ret.analysis.segments = <<>>
    /\ ret.analysis.motion.max_speed_mps = <<0, 1>>

(***************************************************************************)
(* Claims about the orbit builder                                          *)
(***************************************************************************)
OrbitDone == pc = "done" /\ call.fn = "_orbit_keyframes"

\* Two built keyframes are at the same lat and lng: at the same offset
\* from the target, of which lat and lng are functions.
SamePosition(a, b) == QEq(a.radius, b.radius) /\ QEq(a.azimuth_deg, b.azimuth_deg)

SamePoint(a, b) == SamePosition(a, b) /\ QEq(a.alt_m, b.alt_m)

ConstantOrbit(g) ==
    g.radius_start_m = g.radius_end_m /\ g.alt_start_m = g.alt_end_m

\* C23 as stated: for sweep_deg = 0 and samples >= 2, whatever the start and
\* end radius and the start and end altitude are, all keyframes
\* _orbit_keyframes returns have the same lat, the same lng and the same
\* alt_m.
C23_SinglePointAsStated ==
    (OrbitDone /\ call.g.sweep_deg = 0 /\ call.samples >= 2) =>
        \A i \in 1..Len(ret) : SamePoint(ret[i], ret[1])

\* C23 amended: for sweep_deg = 0 and samples >= 2 all keyframes have the
\* same lat, lng and alt_m when the start and end radius are equal and the
\* start and end altitude are equal; the keyframes keep the bearing from
\* the target in any case, and when the radius or the altitude changes the
\* first and the last keyframe are different points.
C23_SinglePointWhenConstant ==
    (OrbitDone /\ call.g.sweep_deg = 0 /\ call.samples >= 2) =>
        /\ \A i \in 1..Len(ret) : QEq(ret[i].azimuth_deg, ret[1].azimuth_deg)
        /\ ConstantOrbit(call.g) => \A i \in 1..Len(ret) : SamePoint(ret[i], ret[1])
        /\ ~ConstantOrbit(call.g) => ~SamePoint(ret[Len(ret)], ret[1])

\* C23 witness: three samples of an orbit without sweep at a radius of
\* 850 m and an altitude of 475 m, all at that one point.
C23_Witness ==
    /\ OrbitDone
    /\ call.g.sweep_deg = 0
    /\ call.samples = 3
    /\ ConstantOrbit(call.g)
    /\ \A i \in 1..3 :
          /\ QEqInt(ret[i].radius, 850)
          /\ QEqInt(ret[i].azimuth_deg, 90)
          /\ QEqInt(ret[i].alt_m, 475)

\* An orbit without sweep that descends from 1000 m to 475 m ends below
\* where it starts.
C23_WitnessDescent ==
    /\ OrbitDone
    /\ call.g.sweep_deg = 0
    /\ call.g.alt_start_m = 1000 /\ call.g.alt_end_m = 475
    /\ QEqInt(ret[1].alt_m, 1000)
    /\ QEqInt(ret[Len(ret)].alt_m, 475)

(***************************************************************************)
(* Claims about the range of the recommendation                            *)
(***************************************************************************)
\* C27: for every motion summary the drone_score and the helicopter_score
\* recommend_platform returns are each between 0 and 8 and add up to 6, 7
\* or 8, so that the denominator of the confidence is their sum and never
\* the floor of 1; the confidence is in [0, 1]; and there are exactly three
\* reasons, for the altitude, the speed and the radius in that order.
C27_ScoreRange ==
    RecommendDone =>
        /\ ret.drone_score \in 0..8
        /\ ret.helicopter_score \in 0..8
        /\ ret.drone_score + ret.helicopter_score \in {6, 7, 8}
        /\ ret.confidence =
              RoundHalfEven(1000 * Abs(ret.drone_score - ret.helicopter_score),
                            ret.drone_score + ret.helicopter_score)
        /\ ret.confidence \in 0..1000
        /\ Len(ret.reasons) = 3
        /\ ret.reasons[1] \in {"altitude_low", "altitude_mid", "altitude_high"}
        /\ ret.reasons[2] \in {"speed_low", "speed_mid", "speed_high"}
        /\ ret.reasons[3] \in {"radius_low", "radius_mid", "radius_high"}

\* C27 witness: every statistic in its middle band, three points each, and
\* the three middle reasons.
C27_Witness ==
    /\ RecommendDone
    /\ call.motion.max_altitude_m = 121
    /\ call.motion.max_speed_mps = 11
    /\ call.motion.avg_radius_m = 501
    /\ ret.drone_score = 3
    /\ ret.helicopter_score = 3
    /\ ret.reasons = <<"altitude_mid", "speed_mid", "radius_mid">>

\* The scores added up to 7: two factors for the helicopter alone, the
\* altitude shared.
C27_WitnessSeven ==
    /\ RecommendDone
    /\ ret.drone_score = 1
    /\ ret.helicopter_score = 6

(***************************************************************************)
(* The tour exporter (kml_exporter.py)                                     *)
(***************************************************************************)
\* One entry of points (lines 47-59), for time t with the loop index at ki.
TourPoint(keyframes, ki, t, interval) ==
    LET a == keyframes[ki + 1]
        b == keyframes[Min(ki + 1, Len(keyframes) - 1) + 1]
        p == ExportFraction(a, b, t)
    IN  [lat |-> Lerp(a.lat, b.lat, p),
         lng |-> Lerp(a.lng, b.lng, p),
         alt |-> Lerp(a.alt_m, b.alt_m, p),
         heading |-> LerpAngle(a.heading_deg, b.heading_deg, p),
         tilt |-> Lerp(a.tilt_deg, b.tilt_deg, p),
         duration |-> interval]

\* The loop left one interval early: while t < end_t.
TourContinuesMutStrict(t, end_t) == t[1] < end_t * t[2]

\* Line 43: while t <= end_t + 1e-6.
TourContinues(t, end_t) == t[1] * 1000000 <= (end_t * 1000000 + 1) * t[2]

\* The while loop of _interpolate_for_tour (lines 43-60) from its k-th
\* pass on: t has grown to k intervals of 1 / max(fps, 1).
RECURSIVE TourPointsFrom(_, _, _, _)
TourPointsFrom(keyframes, fps, k, ki) ==
    LET t == <<k, Max(fps, 1)>>
        end_t == keyframes[Len(keyframes)].t
    IN  IF ~TourContinues(t, end_t) THEN <<>>
        ELSE LET ki2 == AdvanceKi(keyframes, ki, t)
             IN  <<TourPoint(keyframes, ki2, t, <<1, Max(fps, 1)>>)>>
                 \o TourPointsFrom(keyframes, fps, k + 1, ki2)

\* kml_exporter._interpolate_for_tour(keyframes, fps).
InterpolateForTour(keyframes, fps) ==
    IF Len(keyframes) < 2
    THEN [i \in 1..Len(keyframes) |->
            [lat |-> Q(keyframes[i].lat),
             lng |-> Q(keyframes[i].lng),
             alt |-> Q(keyframes[i].alt_m),
             heading |-> Q(keyframes[i].heading_deg),
             tilt |-> Q(keyframes[i].tilt_deg),
             duration |-> Q(0)]]
    ELSE LET points == TourPointsFrom(keyframes, fps, 0, 0)
         IN  [i \in 1..Len(points) |->
                IF i = 1 THEN [points[1] EXCEPT !.duration = Q(0)]
                ELSE points[i]]

\* kml_exporter.export_kml(shot, output_path, fps): the document written,
\* a placemark of the target and a tour with one FlyTo for each point.
ExportKml(shot, fps) ==
    [type |-> "kml",
     placemark |-> [name |-> "Target",
                    coordinates |-> <<shot.target_lng, shot.target_lat, 0>>],
     tour |-> InterpolateForTour(shot.keyframes, fps)]

(***************************************************************************)
(* Specification of the dense sampling: the two exporters on plans of any  *)
(* keyframes, the empty list among them                                    *)
(***************************************************************************)
SamplingKeyframes == KeyframeSeqs \cup {<<>>}

SamplingFpsValues == {0, 1, 2}

\* The plan around a keyframe list.
SamplingShot(ks) ==
    [shot_id |-> "shot", style |-> "helicopter",
     duration_sec |-> IF ks = <<>> THEN 0 ELSE ks[Len(ks)].t,
     target_lat |-> 0, target_lng |-> 0, keyframes |-> ks]

\* export_esp is called with the plans whose frames are on the grid of the
\* ECEF conversion, and with a plan without keyframes, which has no frame.
SamplingCalls ==
    { [fn |-> f, keyframes |-> ks, fps |-> r] :
        f \in {"_interpolate_keyframes", "_interpolate_for_tour"},
        ks \in SamplingKeyframes, r \in SamplingFpsValues }
    \cup
    { [fn |-> "export_kml", shot |-> SamplingShot(ks), fps |-> r] :
        ks \in SamplingKeyframes, r \in SamplingFpsValues }
    \cup
    { [fn |-> "export_esp", shot |-> SamplingShot(<<>>), fps |-> r] :
        r \in SamplingFpsValues }
    \cup
    { c \in ExportCalls : Len(c.shot.keyframes) <= 2 }

\* The same export_esp calls with a duration_sec that is not the time of
\* the last keyframe.
LongerCalls ==
    { [c EXCEPT !.shot.duration_sec = @ + 2] :
        c \in { e \in ExportCalls : Len(e.shot.keyframes) <= 2 } }

\* The plans of generate_shot_plans that are sampled: the whole catalog
\* for every duration drawn.
CatalogPlans ==
    UNION { LET plans == GenerateShotPlans(40, -73, d, Len(Builders)).plans
            IN  { plans[n] : n \in 1..Len(plans) } :
            d \in (-1)..MaxDuration }

CatalogFpsValues == {-1, 0, 1, 2, 3}

\* Largest --max-frames drawn.
MaxFramesCap == 3

MaxFramesValues == {None} \cup { Some(m) : m \in 1..MaxFramesCap }

\* Of _interpolate_keyframes on a plan of the catalog, whose keyframes the
\* model holds by their offsets from the target, the frame times are
\* computed; BatchRenderer._capture is called with the same plans.
CatalogCalls ==
    { [fn |-> "_interpolate_keyframes.t", shot |-> plan, fps |-> r] :
        plan \in CatalogPlans, r \in CatalogFpsValues }
    \cup
    { [fn |-> "_capture", shot |-> plan, fps |-> r, max_frames |-> m] :
        plan \in CatalogPlans, r \in CatalogFpsValues, m \in MaxFramesValues }

InitSampling ==
    /\ pc = "call"
    /\ call \in SamplingCalls \cup LongerCalls \cup CatalogCalls
    /\ ret = NoValue
    /\ esp_file = NoValue
    /\ heap = NoValue
    /\ WebOff

\* _interpolate_keyframes(keyframes, fps).  Of each frame the result keeps
\* the rotation and, in place of the ECEF position, the pose it is
\* converted from.
CallInterpolateKeyframes ==
    /\ pc = "call"
    /\ call.fn = "_interpolate_keyframes"
    /\ ret' = LET poses == InterpolatePoses(call.keyframes, call.fps)
              IN  [i \in 1..Len(poses) |->
                     [pose |-> poses[i], rotation |-> ExportRotation(poses[i])]]
    /\ pc' = "done"
    /\ UNCHANGED <<call, esp_file, heap, web>>

CallInterpolateForTour ==
    /\ pc = "call"
    /\ call.fn = "_interpolate_for_tour"
    /\ ret' = InterpolateForTour(call.keyframes, call.fps)
    /\ pc' = "done"
    /\ UNCHANGED <<call, esp_file, heap, web>>

\* export_kml(shot, output_path, fps=fps) writes the document and returns
\* None.
CallExportKml ==
    /\ pc = "call"
    /\ call.fn = "export_kml"
    /\ esp_file' = ExportKml(call.shot, call.fps)
    /\ ret' = None
    /\ pc' = "done"
    /\ UNCHANGED <<call, heap, web>>

\* esp_exporter._interpolate_keyframes, lines 54-60: the time t of every
\* frame of the loop, for keyframes whose times are rationals.
EspFrameTimes(keyframes, fps) ==
    IF keyframes = <<>> THEN <<>>
    ELSE [n \in 1..TotalFrames(keyframes[Len(keyframes)].t, fps) |->
            FrameTime(n - 1, fps)]

\* The renderer's count with the cap left out.
CaptureTotalFramesMutNoCap(duration_sec, fps, max_frames) == duration_sec * fps

\* renderer.BatchRenderer._capture, lines 278-280: total_frames =
\* shot.duration_sec * fps, lowered to max_frames when that is given.
CaptureTotalFrames(duration_sec, fps, max_frames) ==
    IF max_frames = None THEN duration_sec * fps
    ELSE Min(duration_sec * fps, max_frames[1])

\* Lines 288-289: for i in range(total_frames), t = i / fps.
CaptureTimes(total_frames, fps) ==
    [n \in 1..total_frames |-> <<n - 1, fps>>]

CallInterpolateKeyframeTimes ==
    /\ pc = "call"
    /\ call.fn = "_interpolate_keyframes.t"
    /\ ret' = EspFrameTimes(call.shot.keyframes, call.fps)
    /\ pc' = "done"
    /\ UNCHANGED <<call, esp_file, heap, web>>

\* _capture(shot, frame_dir) of a renderer with the options fps and
\* max_frames: the count it returns and the times of the frames it took.
CallCapture ==
    /\ pc = "call"
    /\ call.fn = "_capture"
    /\ ret' = LET total_frames == CaptureTotalFrames(call.shot.duration_sec,
                                                     call.fps, call.max_frames)
              IN  [total_frames |-> total_frames,
                   times |-> CaptureTimes(total_frames, call.fps)]
    /\ pc' = "done"
    /\ UNCHANGED <<call, esp_file, heap, web>>

NextSampling ==
    CallInterpolateKeyframes \/ CallInterpolateForTour \/ CallExportKml
    \/ CallExportEsp \/ CallInterpolateKeyframeTimes \/ CallCapture

SpecSampling == InitSampling /\ [][NextSampling]_vars

(***************************************************************************)
(* Claims about the dense sampling                                         *)
(***************************************************************************)
ExportFinished ==
    \/ pc = "exported" /\ call.fn = "export_esp"
    \/ pc = "done" /\ call.fn = "export_kml"

\* C22: export_esp and export_kml called with a plan whose keyframe
\* sequence is empty fail with an error and write no document.
C22_EmptyPlanNotExported ==
    (ExportFinished /\ call.shot.keyframes = <<>>) =>
        (ret # None /\ esp_file = NoValue)

\* The keyframes with their times counted in frame intervals of 1 / fps
\* (fps >= 1), in which t = i / fps is the integer i.
InFrameIntervals(keyframes, fps) ==
    [i \in 1..Len(keyframes) |-> [keyframes[i] EXCEPT !.t = keyframes[i].t * fps]]

\* renderer._interpolate_state(keyframes, i / fps).
RendererAt(keyframes, i, fps) ==
    InterpolateStateFn(InFrameIntervals(keyframes, fps), i)

SamePose(state, lat, lng, alt, heading, tilt) ==
    /\ QEq(state.lat, lat)
    /\ QEq(state.lng, lng)
    /\ QEq(state.alt_m, alt)
    /\ QEq(state.heading_deg, heading)
    /\ QEq(state.tilt_deg, tilt)

\* What C25 asks of the keyframes and of fps.
Comparable(keyframes, fps) ==
    /\ Len(keyframes) >= 1
    /\ StrictlyIncreasing(keyframes)
    /\ \A i \in 1..Len(keyframes) :
          keyframes[i].heading_deg >= 0 /\ keyframes[i].heading_deg < 360
    /\ fps >= 1

FramesDone == pc = "done" /\ call.fn = "_interpolate_keyframes"

TourDone == pc = "done" /\ call.fn = "_interpolate_for_tour"

\* C25: for keyframes that are at least one, strictly increasing in time
\* and with headings in [0, 360), and for fps >= 1, the pose of frame i of
\* _interpolate_keyframes and the pose of point k of _interpolate_for_tour
\* are the renderer's _interpolate_state(keyframes, i / fps) and
\* _interpolate_state(keyframes, k / fps) in lat, lng, alt, heading and
\* tilt, at the keyframe times and before the first keyframe too.
C25_InterpolationsAgree ==
    /\ (FramesDone /\ Comparable(call.keyframes, call.fps)) =>
          \A n \in 1..Len(ret) :
              LET s == RendererAt(call.keyframes, n - 1, call.fps)
                  e == ret[n].pose
              IN  SamePose(s, e.lat, e.lng, e.alt_m, e.heading_deg, e.tilt_deg)
    /\ (TourDone /\ Comparable(call.keyframes, call.fps)) =>
          \A n \in 1..Len(ret) :
              LET s == RendererAt(call.keyframes, n - 1, call.fps)
                  e == ret[n]
              IN  SamePose(s, e.lat, e.lng, e.alt, e.heading, e.tilt)

\* C25 witness: three keyframes at 1 s, 2 s and 3 s sampled at 2 frames a
\* second gave six frames, two of them before the first keyframe, one on
\* the first and one on the second.
C25_Witness ==
    /\ FramesDone
    /\ Comparable(call.keyframes, call.fps)
    /\ call.fps = 2
    /\ Len(call.keyframes) = 3
    /\ call.keyframes[1].t = 1 /\ call.keyframes[2].t = 2 /\ call.keyframes[3].t = 3
    /\ call.keyframes[1].heading_deg = 350 /\ call.keyframes[2].heading_deg = 10
    /\ Len(ret) = 6
    /\ QEqInt(ret[4].pose.heading_deg, 0)

\* The tour of the same keyframes has seven points, the last on the last
\* keyframe.
C25_WitnessTour ==
    /\ TourDone
    /\ Comparable(call.keyframes, call.fps)
    /\ call.fps = 2
    /\ Len(call.keyframes) = 3
    /\ call.keyframes[1].t = 1 /\ call.keyframes[2].t = 2 /\ call.keyframes[3].t = 3
    /\ Len(ret) = 7
    /\ QEqInt(ret[7].alt, call.keyframes[3].alt_m)

(***************************************************************************)
(* Claims about the number of frames                                       *)
(***************************************************************************)
CaptureDone == pc = "done" /\ call.fn = "_capture"

FrameTimesDone == pc = "done" /\ call.fn = "_interpolate_keyframes.t"

EspWritten ==
    pc = "exported" /\ call.fn = "export_esp" /\ call.shot.keyframes # <<>>

\* max(floor(last_keyframe_t * fps), 1) for keyframes at whole seconds.
ClaimedFrameCount(keyframes, fps) == Max(keyframes[Len(keyframes)].t * fps, 1)

\* What C26 says of any plan with a keyframe: export_esp wrote
\* max(floor(last_keyframe_t * fps), 1) frames, whatever duration_sec is,
\* and frame i of _interpolate_keyframes has the rotation (-tilt, -heading,
\* 0) of its pose, which is where the plan's path is at i / max(fps, 1).
FramesAsSampled ==
    /\ EspWritten =>
          Len(esp_file.cameraFrames) = ClaimedFrameCount(call.shot.keyframes, call.fps)
    /\ (FramesDone /\ call.keyframes # <<>>) =>
          /\ Len(ret) = ClaimedFrameCount(call.keyframes, call.fps)
          /\ \A n \in 1..Len(ret) :
                /\ ret[n].rotation.x[1] * ret[n].pose.tilt_deg[2]
                      = -ret[n].pose.tilt_deg[1] * ret[n].rotation.x[2]
                /\ ret[n].rotation.y[1] * ret[n].pose.heading_deg[2]
                      = -ret[n].pose.heading_deg[1] * ret[n].rotation.y[2]
                /\ QEqInt(ret[n].rotation.z, 0)
                /\ StrictlyIncreasing(call.keyframes) =>
                      LET at == PlanAt(call.keyframes, <<n - 1, Max(call.fps, 1)>>)
                      IN  /\ QEq(ret[n].pose.lat, at.lat)
                          /\ QEq(ret[n].pose.lng, at.lng)
                          /\ QEq(ret[n].pose.alt_m, at.alt_m)

PositiveRate == call.fps >= 1 /\ call.shot.duration_sec >= 1

C26_WitnessExport ==
    /\ FrameTimesDone
    /\ call.shot.shot_id = "aerial_slow_descent"
    /\ call.shot.duration_sec = 3
    /\ call.fps = 2
    /\ Len(ret) = 6

\* export_esp wrote the 2 frames of a plan whose last keyframe is at 1 s
\* and whose duration_sec is 3.
C26_WitnessLonger ==
    /\ EspWritten
    /\ call.fps = 2
    /\ LastT(call.shot) = 1
    /\ call.shot.duration_sec = 3
    /\ Len(esp_file.cameraFrames) = 2

\* Where the statement fails: at fps = 0 the exporter writes one frame of a
\* 3 s plan and the renderer captures none.
C26_WitnessNoRate ==
    /\ FrameTimesDone
    /\ call.shot.duration_sec = 3
    /\ call.fps = 0
    /\ Len(ret) = 1

(***************************************************************************)
(* Plans as shared objects.  A ShotPlan is passed by reference and holds a *)
(* reference to its keyframe list; a CameraKeyframe is a frozen dataclass, *)
(* a value.  The heap is the sequence of the objects allocated so far, a   *)
(* reference the index of its object.  Calls follow one another on the     *)
(* same plan.                                                              *)
(***************************************************************************)
\* Most calls that follow one another on a plan.
MaxCalls == 2

\* The plan a reference stands for, as the functions read it: its fields,
\* and its keyframe list read through shot.keyframes.
Deref(h, ref) == [h[ref] EXCEPT !.keyframes = h[h[ref].keyframes]]

\* The variant written over the base plan: the transformed keyframes
\* stored in the list of the base plan, whose fields are reassigned.
ShiftedHeapMutInPlace(h, ref, result) ==
    [h EXCEPT ![h[ref].keyframes] = result.keyframes,
              ![ref] = [result EXCEPT !.keyframes = h[ref].keyframes]]

\* app._shift_keyframes_to_reference, lines 246 and 265-274: transformed
\* is a list of its own, filled by append, and the ShotPlan returned is
\* constructed with it; nothing is assigned through shot.
ShiftedHeap(h, ref, result) ==
    Append(Append(h, result.keyframes), [result EXCEPT !.keyframes = Len(h) + 1])

\* The heap holding one plan: the keyframe list at 1, the plan at 2.
HeapOf(shot) == << shot.keyframes, [shot EXCEPT !.keyframes = 1] >>

\* Where the keyframes of the analysed and exported plans are: over the
\* target, at two altitudes 4 m apart.
EffectPoses ==
    { [t |-> 0, lat |-> 0, lng |-> 0, alt_m |-> 21863, heading_deg |-> 350,
       tilt_deg |-> 45, north_m |-> 0],
      [t |-> 0, lat |-> 0, lng |-> 0, alt_m |-> 21867, heading_deg |-> 10,
       tilt_deg |-> 60, north_m |-> 0] }

\* Plans of one or two keyframes, a second apart.
EffectShots ==
    UNION { { [shot_id |-> "shot", style |-> "helicopter", duration_sec |-> n - 1,
               target_lat |-> 0, target_lng |-> 0,
               keyframes |-> [i \in 1..n |-> [ps[i] EXCEPT !.t = i - 1]]] :
              ps \in [1..n -> EffectPoses] } :
            n \in 1..2 }

\* The functions that read a plan, and their further arguments.
ReaderCalls ==
    { [fn |-> f, shot |-> 0, n |-> 0] :
        f \in {"build_shot_analysis", "summarize_motion", "segment_metrics"} }
    \cup { [fn |-> f, fps |-> r, shot |-> 0, n |-> 0] :
             f \in {"export_esp", "export_kml"}, r \in {1, 2} }
    \cup { [fn |-> "_interpolate_state", t |-> t, shot |-> 0, n |-> 0] : t \in 0..1 }

\* The arguments of a variant.
VariantCalls ==
    { [fn |-> "_shift_keyframes_to_reference", heading_shift_deg |-> 0,
       tilt_shift_deg |-> ts, distance_scale |-> <<1, 1>>,
       altitude_scale |-> as, speed_scale |-> <<110, 100>>, shot |-> 0, n |-> 0] :
        ts \in {0, 200}, as \in { <<1, 1>>, <<180, 100>> } }

\* The plans of the catalog the variants are built from.
VariantBases == { BaseShot(40, -73, 3, n) : n \in {1, 2} }

\* A call of function c on the plan at ref, the n-th on the heap.
CallOn(c, ref, n) == [c EXCEPT !.shot = ref, !.n = n]

InitEffects ==
    /\ pc = "call"
    /\ ret = NoValue
    /\ esp_file = NoValue
    /\ WebOff
    /\ \/ \E shot \in EffectShots, c \in ReaderCalls :
             heap = HeapOf(shot) /\ call = CallOn(c, 2, 1)
       \/ \E shot \in VariantBases, c \in VariantCalls :
             heap = HeapOf(shot) /\ call = CallOn(c, 2, 1)

RunBuildShotAnalysis ==
    /\ pc = "call"
    /\ call.fn = "build_shot_analysis"
    /\ ret' = BuildShotAnalysis(Deref(heap, call.shot))
    /\ pc' = "done"
    /\ UNCHANGED <<call, esp_file, heap, web>>

RunSummarizeMotion ==
    /\ pc = "call"
    /\ call.fn = "summarize_motion"
    /\ ret' = SummarizeMotion(Deref(heap, call.shot))
    /\ pc' = "done"
    /\ UNCHANGED <<call, esp_file, heap, web>>

\* segment_metrics(shot.keyframes).
RunSegmentMetrics ==
    /\ pc = "call"
    /\ call.fn = "segment_metrics"
    /\ ret' = SegmentMetrics(heap[heap[call.shot].keyframes])
    /\ pc' = "done"
    /\ UNCHANGED <<call, esp_file, heap, web>>

RunExportEsp ==
    /\ pc = "call"
    /\ call.fn = "export_esp"
    /\ esp_file' = ExportEsp(Deref(heap, call.shot), call.fps)
    /\ ret' = None
    /\ pc' = "done"
    /\ UNCHANGED <<call, heap, web>>

RunExportKml ==
    /\ pc = "call"
    /\ call.fn = "export_kml"
    /\ esp_file' = ExportKml(Deref(heap, call.shot), call.fps)
    /\ ret' = None
    /\ pc' = "done"
    /\ UNCHANGED <<call, heap, web>>

\* _interpolate_state(shot.keyframes, t).
RunInterpolateState ==
    /\ pc = "call"
    /\ call.fn = "_interpolate_state"
    /\ ret' = InterpolateStateFn(heap[heap[call.shot].keyframes], call.t)
    /\ pc' = "done"
    /\ UNCHANGED <<call, esp_file, heap, web>>

\* _shift_keyframes_to_reference(shot, ...): the reference of the plan it
\* returns.
RunShiftKeyframesToReference ==
    /\ pc = "call"
    /\ call.fn = "_shift_keyframes_to_reference"
    /\ \E result \in ShiftKeyframesToReference(Deref(heap, call.shot),
                        call.heading_shift_deg, call.tilt_shift_deg,
                        call.distance_scale, call.altitude_scale, call.speed_scale) :
          /\ heap' = ShiftedHeap(heap, call.shot, result)
          /\ ret' = Len(heap')
    /\ pc' = "done"
    /\ UNCHANGED <<call, esp_file, web>>

\* The caller goes on to the next call: on the same plan, or on the plan
\* the last call returned.
NextCall ==
    /\ pc = "done"
    /\ call.n < MaxCalls
    /\ \/ /\ call.fn # "_shift_keyframes_to_reference"
          /\ \E c \in ReaderCalls : call' = CallOn(c, call.shot, call.n + 1)
       \/ /\ call.fn = "_shift_keyframes_to_reference"
          /\ \E c \in VariantCalls, ref \in {call.shot, ret} :
                call' = CallOn(c, ref, call.n + 1)
    /\ pc' = "call"
    /\ ret' = NoValue
    /\ UNCHANGED <<esp_file, heap, web>>

NextEffects ==
    RunBuildShotAnalysis \/ RunSummarizeMotion \/ RunSegmentMetrics
    \/ RunExportEsp \/ RunExportKml \/ RunInterpolateState
    \/ RunShiftKeyframesToReference \/ NextCall

SpecEffects == InitEffects /\ [][NextEffects]_vars

(***************************************************************************)
(* Claims about the effects of the calls                                   *)
(***************************************************************************)
Returned == pc = "call" /\ pc' = "done"

\* C24: a call of build_shot_analysis, summarize_motion, segment_metrics,
\* export_esp, export_kml or _interpolate_state leaves every object as it
\* was, the plan it is given and the plan's keyframe list among them (the
\* fields, the length and the order of the list, every keyframe); a call
\* of _shift_keyframes_to_reference leaves every object as it was too, and
\* the plan it returns and that plan's keyframe list are objects that did
\* not exist before.
C24_InputsUnchanged ==
    [][Returned =>
          /\ Len(heap') >= Len(heap)
          /\ \A ref \in 1..Len(heap) : heap'[ref] = heap[ref]
          /\ call.fn # "_shift_keyframes_to_reference" => heap' = heap
          /\ call.fn = "_shift_keyframes_to_reference" =>
                /\ ret' \in (Len(heap) + 1)..Len(heap')
                /\ heap'[ret'].keyframes \in (Len(heap) + 1)..Len(heap')
                /\ heap'[ret'].keyframes # ret']_vars

\* C24 witness: a second variant was built from the same base plan, which
\* is still entry 1 of the catalog with its 13 keyframes; both variants
\* are later and have lists of their own.
C24_Witness ==
    /\ pc = "done"
    /\ call.fn = "_shift_keyframes_to_reference"
    /\ call.n = 2
    /\ call.shot = 2
    /\ Len(heap) = 6
    /\ Deref(heap, 2) = BaseShot(40, -73, 3, 1)
    /\ heap[4].keyframes = 3 /\ heap[6].keyframes = 5
    /\ heap[3] # heap[1]

\* An exported plan was analysed next and is what it was.
C24_WitnessReaders ==
    /\ pc = "done"
    /\ call.fn = "build_shot_analysis"
    /\ call.n = 2
    /\ esp_file # NoValue
    /\ Deref(heap, call.shot) \in EffectShots
    /\ ret.error = "none"

(***************************************************************************)
(* The web application (app.py).  A request handler registers a task in    *)
(* the tasks dict and starts a worker thread; the worker writes its        *)
(* progress into the task, one dict assignment at a time, while other      *)
(* workers and requests run.  A task is a record of the keys a task dict   *)
(* can hold; the keys every task is registered with have their values,     *)
(* and a key that only some tasks hold, or that is assigned later, is None *)
(* while the dict does not hold it and Some(value) once it does.  Task ids *)
(* are the numbers of the tasks in the order of their registration (the    *)
(* source draws them from uuid4).  Rendering and encoding are steps that   *)
(* return or raise.                                                        *)
(***************************************************************************)
engine == <<pc, call, ret, esp_file, heap>>

\* Most tasks registered.
MaxTasks == 2

\* Latest second of the wall clock.
MaxNow == 1

\* The shot ids of the catalog, in its order.
CatalogIds == [n \in 1..Len(Builders) |-> Builders[n].shot_id]

\* app._is_flyby_shot: "flyby" or "flythrough" is in the shot id.
IsFlybyShot(shot_id) ==
    shot_id \in {"aerial_flyby_north", "aerial_flythrough_east",
                 "aerial_flyby_diagonal"}

\* [s for s in plans if _is_flyby_shot(s.shot_id) = flyby].
RECURSIVE KeepShots(_, _)
KeepShots(ids, flyby) ==
    IF ids = <<>> THEN <<>>
    ELSE (IF IsFlybyShot(Head(ids)) = flyby THEN <<Head(ids)>> ELSE <<>>)
         \o KeepShots(Tail(ids), flyby)

\* app._select_shot_plans(lat, lng, duration_sec, num_shots, shot_mode): the
\* ids of the plans it returns, or the ValueError it raises.
SelectShotPlans(num_shots, shot_mode) ==
    LET plans == IF shot_mode = "orbit" THEN KeepShots(CatalogIds, FALSE)
                 ELSE IF shot_mode = "flyby" THEN KeepShots(CatalogIds, TRUE)
                 ELSE CatalogIds
    IN  IF plans = <<>>
        THEN [error |-> "No shot plans available for the selected shot type.",
              plans |-> <<>>]
        ELSE [error |-> "none",
              plans |-> SubSeq(plans, 1, Min(num_shots, Len(plans)))]

\* app._shot_plan_by_id followed by _build_reference_variants: the ids of
\* the three variants, or the ValueError of an unknown shot id.
ReferenceVariants(shot_id) ==
    IF \E n \in 1..Len(CatalogIds) : CatalogIds[n] = shot_id
    THEN [error |-> "none",
          plans |-> << shot_id \o "_ref_match_a", shot_id \o "_ref_match_b",
                       shot_id \o "_ref_match_c" >>]
    ELSE [error |-> "Unknown shot_id: " \o shot_id, plans |-> <<>>]

\* The plans a worker goes through.
PlansOf(kind, request) ==
    IF kind = "video" THEN ReferenceVariants(request.shot_id)
    ELSE SelectShotPlans(request.num_shots, request.shot_mode)

\* The task dict a handler registers.
NewTask(total) ==
    [status |-> "running", total |-> total, current |-> 0, current_name |-> "",
     videos |-> <<>>, lat |-> None, lng |-> None, task_type |-> None,
     stills |-> None, error |-> None, run_id |-> None]

\* The worker thread a handler starts.
NewWorker(kind, request, at) ==
    [kind |-> kind, request |-> request, pc |-> at, idx |-> 0,
     shot_plans |-> <<>>, run_id |-> None, frames_by |-> None, exc |-> "",
     status_writes |-> 0]

\* What the requests ask for: numShots and shot_mode of the previews and
\* the stills, the shot_id of a video.
PreviewRequests ==
    { [num_shots |-> 1, shot_mode |-> "mixed"],
      [num_shots |-> 4, shot_mode |-> "flyby"] }

StillsRequests == { [num_shots |-> 2, shot_mode |-> "orbit"] }

VideoRequests == { [shot_id |-> "aerial_slow_descent"], [shot_id |-> "no_such_shot"] }

\* The message of the worker that finds no API key.
KeyMessage(kind) ==
    IF kind = "video" THEN "API key is missing." ELSE "API key is not set."

\* The position after the loop, with the last one left out.
AfterLoopMutEnd(kind) == "end"

\* Where a worker goes after its last shot: _generate_reference_stills
\* sorts and publishes the stills (line 467), the others set the status.
AfterLoop(kind) == IF kind = "stills" THEN "publish" ELSE "finish"

\* The progress counter one ahead.
CurrentOfMutAhead(idx) == idx + 2

\* task["current"] = idx + 1.
CurrentOf(idx) == idx + 1

\* run_id = datetime.now().strftime("%Y%m%d_%H%M%S"): the clock to the
\* second.
RunId(t) == t

\* frame_dir = run_dir / "frames" / shot.shot_id.
FrameDir(run_id, shot_id) == <<run_id, shot_id>>

\* The permutations of a sequence: the orders stills.sort can leave, the
\* similarities being what the images make them.
SortOrders(seq) ==
    { [i \in 1..Len(seq) |-> seq[f[i]]] :
        f \in { g \in [1..Len(seq) -> 1..Len(seq)] :
                  \A a, b \in 1..Len(seq) : a # b => g[a] # g[b] } }

InitWeb ==
    /\ pc = "serving"
    /\ call = NoValue
    /\ ret = NoValue
    /\ esp_file = NoValue
    /\ heap = NoValue
    /\ WebOff

\* The clock passes a second.
Tick ==
    /\ now < MaxNow
    /\ now' = now + 1
    /\ UNCHANGED <<engine, tasks, workers, stored_api_key, files>>

\* validate_key with a key the tile service accepts.
ValidateKey ==
    /\ stored_api_key' = TRUE
    /\ UNCHANGED <<engine, tasks, workers, now, files>>

\* The handlers register the task and start its thread.
StartGenerate ==
    /\ Len(tasks) < MaxTasks
    /\ \E r \in PreviewRequests :
          /\ tasks' = Append(tasks, [NewTask(r.num_shots) EXCEPT
                                       !.lat = Some(40), !.lng = Some(-73)])
          /\ workers' = Append(workers, NewWorker("previews", r, "start"))
    /\ UNCHANGED <<engine, now, stored_api_key, files>>

StartGenerateReferenceStills ==
    /\ stored_api_key
    /\ Len(tasks) < MaxTasks
    /\ \E r \in StillsRequests :
          /\ tasks' = Append(tasks, [NewTask(r.num_shots) EXCEPT
                                       !.stills = Some(<<>>),
                                       !.lat = Some(40), !.lng = Some(-73),
                                       !.task_type = Some("reference_stills")])
          /\ workers' = Append(workers, NewWorker("stills", r, "start"))
    /\ UNCHANGED <<engine, now, stored_api_key, files>>

StartGenerateFromSelectedShot ==
    /\ Len(tasks) < MaxTasks
    /\ \E r \in VideoRequests :
          /\ tasks' = Append(tasks, [NewTask(3) EXCEPT
                                       !.lat = Some(40), !.lng = Some(-73),
                                       !.task_type = Some("single_shot_video")])
          /\ workers' = Append(workers, NewWorker("video", r, "start"))
    /\ UNCHANGED <<engine, now, stored_api_key, files>>

\* regenerate_shot: the plan is built by the handler and has the id
\* "custom_regen"; _run starts inside its try.
RegenerateShot ==
    /\ stored_api_key
    /\ Len(tasks) < MaxTasks
    /\ tasks' = Append(tasks, NewTask(1))
    /\ workers' =
          Append(workers,
                 [NewWorker("regen", [shot_id |-> "custom_regen"], "current")
                    EXCEPT !.shot_plans = <<"custom_regen">>])
    /\ UNCHANGED <<engine, now, stored_api_key, files>>

\* get_task_status(task_id): the response, {"ok": True, **task}.
GetTaskStatus(task_id) ==
    IF task_id \in DOMAIN tasks
    THEN LET task == tasks[task_id]
         IN  [ok |-> TRUE, status |-> task.status, total |-> task.total,
              current |-> task.current, current_name |-> task.current_name,
              videos |-> task.videos, lat |-> task.lat, lng |-> task.lng,
              task_type |-> task.task_type, stills |-> task.stills,
              error |-> task.error, run_id |-> task.run_id]
    ELSE [ok |-> FALSE, error |-> Some("Task not found.")]

\* The steps of a worker move it and leave the other workers alone.
Goto(i, at) == workers' = [workers EXCEPT ![i].pc = at]

\* An exception leaves the try block for its handler.
Raise(i, message) ==
    /\ workers' = [workers EXCEPT ![i].pc = "except", ![i].exc = message]
    /\ UNCHANGED <<tasks, files>>

\* The workers but regenerate_shot's read the key first: without one they
\* set the status and return.
CheckKey(i) ==
    /\ workers[i].pc = "start"
    /\ IF stored_api_key
       THEN Goto(i, "run") /\ UNCHANGED tasks
       ELSE /\ tasks' = [tasks EXCEPT ![i].status = "error"]
            /\ workers' = [workers EXCEPT ![i].pc = "keymsg",
                                          ![i].status_writes = @ + 1]
    /\ UNCHANGED <<engine, now, stored_api_key, files>>

SetKeyMessage(i) ==
    /\ workers[i].pc = "keymsg"
    /\ tasks' = [tasks EXCEPT ![i].error = Some(KeyMessage(workers[i].kind))]
    /\ Goto(i, "end")
    /\ UNCHANGED <<engine, now, stored_api_key, files>>

\* run_id and run_dir are made of the clock and stored in the task.
AssignRunDir(i) ==
    /\ workers[i].pc = "run"
    /\ tasks' = [tasks EXCEPT ![i].run_id = Some(RunId(now))]
    /\ workers' = [workers EXCEPT
                     ![i].run_id = Some(RunId(now)),
                     ![i].pc = IF workers[i].kind = "regen" THEN "render" ELSE "select"]
    /\ UNCHANGED <<engine, now, stored_api_key, files>>

\* The plans are chosen and counted.  The stills worker reads the
\* reference image first, which can fail.
SelectPlans(i) ==
    /\ workers[i].pc = "select"
    /\ LET w == workers[i]
           sel == PlansOf(w.kind, w.request)
       IN  \/ /\ sel.error = "none"
              /\ tasks' = [tasks EXCEPT
                             ![i].total = Len(sel.plans),
                             ![i].videos = IF w.kind = "video" THEN @ ELSE <<>>]
              /\ workers' = [workers EXCEPT
                               ![i].shot_plans = sel.plans,
                               ![i].pc = IF w.kind = "video" THEN "current" ELSE "boot"]
              /\ UNCHANGED files
           \/ /\ sel.error # "none"
              /\ Raise(i, sel.error)
           \/ /\ w.kind = "stills"
              /\ Raise(i, "cannot identify image file")
    /\ UNCHANGED <<engine, now, stored_api_key>>

\* BatchRenderer.__enter__ and boot.
Boot(i) ==
    /\ workers[i].pc = "boot"
    /\ \/ Goto(i, "current") /\ UNCHANGED <<tasks, files>>
       \/ Raise(i, "Cesium/Google 3D Tiles initialization failed.")
    /\ UNCHANGED <<engine, now, stored_api_key>>

SetCurrent(i) ==
    /\ workers[i].pc = "current"
    /\ tasks' = [tasks EXCEPT
                   ![i].current = CurrentOf(workers[i].idx),
                   ![i].current_name = workers[i].shot_plans[workers[i].idx + 1]]
    /\ Goto(i, IF workers[i].kind = "regen" THEN "run" ELSE "render")
    /\ UNCHANGED <<engine, now, stored_api_key, files>>

\* The shot is rendered: the frame_*.png files in its frame directory are
\* unlinked, whoever wrote them, and the worker's frames are written.  The
\* stills worker renders one image and keeps no frames.
Render(i) ==
    /\ workers[i].pc = "render"
    /\ LET w == workers[i]
           dir == FrameDir(w.run_id[1], w.shot_plans[w.idx + 1])
       IN  \/ /\ w.kind = "stills"
              /\ Goto(i, "append")
              /\ UNCHANGED <<tasks, files>>
           \/ /\ w.kind # "stills"
              /\ files' = { f \in files : f.dir # dir } \cup {[dir |-> dir, by |-> i]}
              /\ Goto(i, "encode")
              /\ UNCHANGED tasks
           \/ Raise(i, "render failed")
    /\ UNCHANGED <<engine, now, stored_api_key>>

\* ffmpeg encodes the frames it finds in the frame directory, and fails
\* when there are none; the directory is removed.
Encode(i) ==
    /\ workers[i].pc = "encode"
    /\ LET w == workers[i]
           dir == FrameDir(w.run_id[1], w.shot_plans[w.idx + 1])
           found == { f \in files : f.dir = dir }
       IN  \/ /\ found # {}
              /\ \E f \in found :
                    workers' = [workers EXCEPT ![i].frames_by = Some(f.by),
                                               ![i].pc = "append"]
              /\ files' = files \ found
              /\ UNCHANGED tasks
           \/ Raise(i, "ffmpeg returned non-zero exit status")
    /\ UNCHANGED <<engine, now, stored_api_key>>

\* task["videos"].append(...), and the loop goes on or ends.
AppendVideo(i) ==
    /\ workers[i].pc = "append"
    /\ LET w == workers[i]
       IN  /\ tasks' = [tasks EXCEPT
                          ![i].videos =
                              Append(@, [shot_id |-> w.shot_plans[w.idx + 1],
                                         run_id |-> w.run_id[1],
                                         frames_by |-> w.frames_by])]
           /\ workers' = [workers EXCEPT
                            ![i].idx = @ + 1,
                            ![i].pc = IF w.idx + 1 < Len(w.shot_plans)
                                      THEN "current" ELSE AfterLoop(w.kind)]
    /\ UNCHANGED <<engine, now, stored_api_key, files>>

\* The stills are sorted by similarity and stored as stills and videos.
PublishStills(i) ==
    /\ workers[i].pc = "publish"
    /\ \E sorted \in SortOrders(tasks[i].videos) :
          tasks' = [tasks EXCEPT ![i].stills = Some(sorted), ![i].videos = sorted]
    /\ Goto(i, "finish")
    /\ UNCHANGED <<engine, now, stored_api_key, files>>

\* task["status"] = "done", the last statement of the try block.
Finish(i) ==
    /\ workers[i].pc = "finish"
    /\ tasks' = [tasks EXCEPT ![i].status = "done"]
    /\ workers' = [workers EXCEPT ![i].pc = "end", ![i].status_writes = @ + 1]
    /\ UNCHANGED <<engine, now, stored_api_key, files>>

\* except Exception as exc: task["status"] = "error" ...
Catch(i) ==
    /\ workers[i].pc = "except"
    /\ tasks' = [tasks EXCEPT ![i].status = "error"]
    /\ workers' = [workers EXCEPT ![i].pc = "excmsg", ![i].status_writes = @ + 1]
    /\ UNCHANGED <<engine, now, stored_api_key, files>>

\* ... and task["error"] = str(exc).
SetError(i) ==
    /\ workers[i].pc = "excmsg"
    /\ tasks' = [tasks EXCEPT ![i].error = Some(workers[i].exc)]
    /\ Goto(i, "end")
    /\ UNCHANGED <<engine, now, stored_api_key, files>>

\* A step of the worker of task i.
Worker(i) ==
    /\ i \in DOMAIN workers
    /\ \/ CheckKey(i) \/ SetKeyMessage(i) \/ AssignRunDir(i) \/ SelectPlans(i)
       \/ Boot(i) \/ SetCurrent(i) \/ Render(i) \/ Encode(i) \/ AppendVideo(i)
       \/ PublishStills(i) \/ Finish(i) \/ Catch(i) \/ SetError(i)

WorkerStep == \E i \in DOMAIN workers : Worker(i)

NextWeb ==
    \/ Tick \/ ValidateKey
    \/ StartGenerate \/ StartGenerateReferenceStills
    \/ StartGenerateFromSelectedShot \/ RegenerateShot
    \/ WorkerStep

SpecWeb == InitWeb /\ [][NextWeb]_vars

\* A worker thread that can take a step takes one.
SpecWebFair == SpecWeb /\ \A i \in 1..MaxTasks : WF_vars(Worker(i))

(***************************************************************************)
(* Claims about the web application                                        *)
(***************************************************************************)
Registered(i) == i \in DOMAIN tasks

Running(i) == IF Registered(i) THEN tasks[i].status = "running" ELSE FALSE

Ended(i) == IF Registered(i) THEN workers[i].pc = "end" ELSE FALSE

\* The positions of a worker that has assigned the status.
AfterStatus == {"keymsg", "excmsg", "end"}

\* What holds of the status of every task in every state.
StatusWrittenOnce ==
    \A i \in DOMAIN tasks :
        /\ tasks[i].status \in {"running", "done", "error"}
        /\ workers[i].status_writes <= 1
        /\ workers[i].pc \in AfterStatus <=> workers[i].status_writes = 1
        /\ workers[i].pc \in AfterStatus <=> tasks[i].status # "running"
        /\ (Ended(i) /\ tasks[i].status = "error") => tasks[i].error # None
        /\ (Ended(i) /\ tasks[i].error # None) => tasks[i].status = "error"

\* A registered task starts as running, and a status other than running
\* stays.
StatusStays ==
    /\ \A i \in DOMAIN tasks' \ DOMAIN tasks : tasks'[i].status = "running"
    /\ \A i \in DOMAIN tasks :
          tasks[i].status # "running" => tasks'[i].status = tasks[i].status

C28_WitnessException ==
    \E i \in DOMAIN tasks :
        /\ Ended(i) /\ tasks[i].status = "error"
        /\ tasks[i].error = Some("render failed")
        /\ tasks[i].current = 2

IsPreview(i) == Registered(i) /\ workers[i].kind = "previews"

\* C29: what get_task_status returns of a preview task has, at every
\* moment, len(videos) <= current <= total; the videos are those of the
\* first shots selected, in their order; and when the status is "done"
\* len(videos) = current = total = the number of shots selected.
C29_PreviewProgress ==
    \A i \in DOMAIN tasks :
        IsPreview(i) =>
            LET r == GetTaskStatus(i)
                selected == SelectShotPlans(workers[i].request.num_shots,
                                            workers[i].request.shot_mode).plans
            IN  /\ r.ok
                /\ Len(r.videos) <= r.current
                /\ r.current <= r.total
                /\ Len(r.videos) <= Len(selected)
                /\ \A k \in 1..Len(r.videos) : r.videos[k].shot_id = selected[k]
                /\ r.status = "done" =>
                      /\ Len(r.videos) = r.current
                      /\ r.current = r.total
                      /\ r.total = Len(selected)

\* C29 witness: a preview task asked for 4 fly-by shots is in its second
\* shot, one video appended, the total lowered to the 3 there are.
C29_Witness ==
    \E i \in DOMAIN tasks :
        /\ IsPreview(i)
        /\ workers[i].request.num_shots = 4
        /\ tasks[i].status = "running"
        /\ tasks[i].total = 3
        /\ tasks[i].current = 2
        /\ Len(tasks[i].videos) = 1

\* The same task is done with its three videos.
C29_WitnessDone ==
    \E i \in DOMAIN tasks :
        /\ IsPreview(i)
        /\ tasks[i].status = "done"
        /\ tasks[i].total = 3
        /\ Len(tasks[i].videos) = 3
        /\ tasks[i].videos[3].shot_id = "aerial_flyby_diagonal"

\* The worker of task i is between the assignment of its run directory
\* and its end.
InRun(i) ==
    /\ Registered(i)
    /\ workers[i].run_id # None
    /\ workers[i].pc # "end"

\* C30: two generation tasks that run at the same time never have the
\* same run directory.
C30_RunDirsDistinct ==
    \A i, j \in DOMAIN tasks :
        (i # j /\ InRun(i) /\ InRun(j)) => workers[i].run_id # workers[j].run_id

\* What sharing does: a video of one task made of the frames another task
\* rendered.
C30_WitnessForeignFrames ==
    \E i \in DOMAIN tasks :
        /\ tasks[i].status = "done"
        /\ \E k \in 1..Len(tasks[i].videos) :
              /\ tasks[i].videos[k].frames_by # None
              /\ tasks[i].videos[k].frames_by # Some(i)

\* And a task that fails in the encoder, its frames removed by another.
C30_WitnessFramesGone ==
    \E i, j \in DOMAIN tasks :
        /\ i # j
        /\ workers[i].pc = "encode" /\ workers[j].pc \in {"append", "finish", "end"}
        /\ workers[i].run_id = workers[j].run_id
        /\ workers[i].kind = "regen" /\ workers[j].kind = "regen"
        /\ files = {}

====
